---- MODULE Spec2Model ----
(***************************************************************************)
(* Model of the Telegram PC-controller bot (Rimus0cod/control): the user   *)
(* store, the authorization handlers, the PC-control handlers and the      *)
(* notification fan-out.                                                   *)
(*                                                                         *)
(* Every inbound update is handled by one task.  A task runs its handler   *)
(* from one suspension point (an awaited store access or external call) to *)
(* the next; one step of the model is one such segment.  The replies a     *)
(* handler sends to its own chat touch no shared state and are recorded in *)
(* the segment that issues them.                                           *)
(*                                                                         *)
(* Each task keeps, for as long as it lives, the list of the effects it   *)
(* has performed (field trace): store writes, external adapter calls,      *)
(* messages sent.  The list is what the properties below speak about.      *)
(***************************************************************************)
EXTENDS Integers, Sequences, FiniteSets, TLC

\* ------------------------------------------------------------------ bounds
\* Telegram ids of the senders that exist in the model: 1..MaxUsers.
MaxUsers == 3
\* Inbound updates handled in one run, one at a time.
MaxEvents == 3
\* Inbound updates handled in one run of the interleaved specification.
MaxConcEvents == 5
\* Inbound updates handled in one run of the fan-out specification.
MaxFanoutEvents == 6
\* Updates in flight at once under the interleaved specification.
MaxInFlight == 2
\* Calls and updates handled in one run of the service specification.
MaxServiceEvents == 2
\* The largest `retries` handed to WakeOnLanService.wake.
MaxRetries == 3
\* Rows of log_entries in the stores the service specification starts from.
MaxLogs == 3
\* Inbound updates handled in one run of the restart specification.
MaxRestartEvents == 4
MaxStatusEvents == 2
MaxWakeEvents == 2
MaxRevokeEvents == 3
MaxRaceEvents == 3
MaxTimeout == 5

UserIds == 1..MaxUsers
\* An id that parses as a number and belongs to nobody (a forged payload).
UnknownId == MaxUsers + 1
Slots == 1..MaxInFlight

VARIABLES
    settings,       \* the Settings object get_settings() caches for the process
    users,          \* table users, keyed by telegram_id (unique)
    auth_requests,  \* table auth_requests, in insertion order
    log_entries,    \* table log_entries, in insertion order
    pc_status,      \* table pc_status, in insertion order
    tasks,          \* the handler invocations in flight
    nevents         \* inbound updates received so far

vars == <<settings, users, auth_requests, log_entries, pc_status, tasks, nevents>>

\* ------------------------------------------------------------ configuration
\* Settings.parse_admin_ids, the "before" validator of admin_ids.  `v` is the
\* value handed in: a list, an int, or a string, whose comma-separated pieces
\* are given stripped, 0 standing for a piece that is empty after the strip.
parse_admin_ids(v) ==
    CASE v.form = "list" -> v.items
      [] v.form = "int" -> <<v.items[1]>>
      [] v.form = "str" -> SelectSeq(v.items, LAMBDA x : x # 0)
      [] OTHER -> <<>>

\* The ADMIN_IDS value of the deployment the three handler specifications run.
ADMIN_IDS == [form |-> "int", items |-> <<1>>]

\* Settings.admin_ids / BotConfig.admin_ids: the static admin list.
admin_ids == settings.admin_ids

\* `x in bot.config.admin_ids`
InAdminIds(uid) == \E i \in DOMAIN admin_ids : admin_ids[i] = uid

\* Settings.notify_on_pc_status (default True)
notify_on_pc_status == TRUE
store == <<users, auth_requests, log_entries, pc_status>>

\* ------------------------------------------------------------------ models
\* Python's None for an Optional[User].
NoUser == [id |-> 0, telegram_id |-> 0, is_authorized |-> FALSE,
           is_admin |-> FALSE, notifications_enabled |-> FALSE]

\* User(telegram_id=...) with the column defaults; id is the autoincrement key.
NewUser(telegram_id, id) ==
    [id |-> id, telegram_id |-> telegram_id, is_authorized |-> FALSE,
     is_admin |-> FALSE, notifications_enabled |-> TRUE]

\* AuthRequest(user_id=..., status="pending")
NewAuthRequest(user_id) ==
    [user_id |-> user_id, status |-> "pending",
     processed_at |-> FALSE, processed_by_id |-> 0]

\* LogEntry(user_id=..., action=...); created_at defaults to the clock at the
\* insert, which is later than that of every row inserted before.
NewLogEntry(action, user_id, created_at) ==
    [action |-> action, user_id |-> user_id, created_at |-> created_at]

UserColumns == {"is_authorized", "is_admin", "notifications_enabled"}

\* -------------------------------------------------------------- repository
\* Fault: a lookup that falls back on some stored row when the id matches none.
get_some_user(telegram_id) ==
    IF telegram_id \in DOMAIN users THEN users[telegram_id]
    ELSE IF DOMAIN users # {} THEN users[CHOOSE u \in DOMAIN users : TRUE]
    ELSE NoUser

\* DatabaseRepository.get_user_by_telegram_id
get_user_by_telegram_id(telegram_id) ==
    IF telegram_id \in DOMAIN users THEN users[telegram_id] ELSE NoUser

\* Fault: a users table with no constraint on telegram_id.
Unconstrained(telegram_id) == FALSE

\* User.telegram_id is `unique=True`: the INSERT of a second row with a
\* telegram_id that is stored raises IntegrityError at the commit.
IntegrityError(telegram_id) == telegram_id \in DOMAIN users

\* DatabaseRepository.create_user: the table after the insert.
create_user(telegram_id) ==
    [u \in DOMAIN users \cup {telegram_id} |->
        IF u = telegram_id
        THEN NewUser(telegram_id, Cardinality(DOMAIN users) + 1)
        ELSE users[u]]

\* Fault: a flush that writes every column of the object it was handed.
WholeRow(row, loaded, user) == user

\* The row the flush of session.add(user) leaves: the unit of work writes the
\* attributes of `user` whose value differs from the one that was loaded, and
\* leaves the other columns of the row as they are stored.
FlushedRow(row, loaded, user) ==
    [c \in DOMAIN row |->
        IF c \in UserColumns /\ user[c] # loaded[c] THEN user[c] ELSE row[c]]

\* Fault: an UPDATE with no WHERE clause, the changed columns land in every row.
update_every_user(loaded, user) ==
    [u \in DOMAIN users |-> FlushedRow(users[u], loaded, user)]

\* Fault: a write that flips in the stored row the flags the handler flipped
\* (UPDATE ... SET c = NOT c), whatever the handler had read.
update_user_in_place(loaded, user) ==
    [users EXCEPT ![loaded.telegram_id] =
        [c \in DOMAIN @ |->
            IF c \in UserColumns /\ user[c] # loaded[c] THEN ~@[c] ELSE @[c]]]

\* DatabaseRepository.update_user: the table after the commit.  `loaded` is the
\* object as get_user_by_telegram_id returned it, `user` the object as the
\* handler changed it.
update_user(loaded, user) ==
    [users EXCEPT ![loaded.telegram_id] =
        FlushedRow(users[loaded.telegram_id], loaded, user)]

\* Fault: an insert that is skipped when the user has a pending request.
create_auth_request_once(user_id) ==
    IF \E k \in DOMAIN auth_requests :
          auth_requests[k].user_id = user_id /\ auth_requests[k].status = "pending"
    THEN auth_requests
    ELSE Append(auth_requests, NewAuthRequest(user_id))

\* DatabaseRepository.create_auth_request
create_auth_request(user_id) == Append(auth_requests, NewAuthRequest(user_id))

\* DatabaseRepository.add_log_entry
add_log_entry(action, user_id) ==
    Append(log_entries, NewLogEntry(action, user_id, Len(log_entries) + 1))

\* Fault: the query without `.desc()`, oldest first.
get_oldest_log_entries(limit) ==
    SubSeq(log_entries, 1, IF limit < Len(log_entries) THEN limit ELSE Len(log_entries))

\* DatabaseRepository.get_log_entries: ORDER BY created_at DESC LIMIT limit.
\* Row k of the ordered result is the one with k - 1 later rows.
get_log_entries(limit) ==
    LET rows == {log_entries[i] : i \in DOMAIN log_entries}
        later(r) == {q \in rows : q.created_at > r.created_at}
        ordered == [k \in 1..Cardinality(rows) |->
                       CHOOSE r \in rows : Cardinality(later(r)) = k - 1]
    IN  SubSeq(ordered, 1, IF limit < Len(ordered) THEN limit ELSE Len(ordered))

\* The pc_status row; last_wake_attempt is TRUE once the column is not null.
NewPCStatus == [is_online |-> FALSE, last_wake_attempt |-> FALSE]

\* `result.scalar_one_or_none()` on select(PCStatus): the index of the row, 0
\* for None.  It raises MultipleResultsFound on more than one row.
SelectPCStatus == IF Len(pc_status) = 0 THEN 0 ELSE 1

SelectPCStatusRaises == Len(pc_status) > 1

\* The table after the commit of update_pc_status, `found` being the row its
\* select returned.
update_pc_status(found, is_online) ==
    IF found = 0
    THEN Append(pc_status, [NewPCStatus EXCEPT !.is_online = is_online])
    ELSE [pc_status EXCEPT ![found].is_online = is_online]

\* The table after the commit of update_last_wake_attempt.
update_last_wake_attempt(found) ==
    IF found = 0
    THEN Append(pc_status, [NewPCStatus EXCEPT !.last_wake_attempt = TRUE])
    ELSE [pc_status EXCEPT ![found].last_wake_attempt = TRUE]

\* The users table in primary-key order.
UsersById ==
    [k \in 1..Cardinality(DOMAIN users) |->
        CHOOSE r \in {users[u] : u \in DOMAIN users} : r.id = k]

\* Fault: a select with no is_authorized filter.
get_all_users == UsersById

\* DatabaseRepository.get_all_authorized_users
get_all_authorized_users == SelectSeq(UsersById, LAMBDA r : r.is_authorized)

\* ------------------------------------------------------------------- tasks
NoArg == [form |-> "none", id |-> 0, action |-> "none"]

Idle == [kind |-> "idle", sender |-> 0, arg |-> NoArg, pc |-> "idle",
         user |-> NoUser, list |-> <<>>, i |-> 0, sent_count |-> 0,
         is_online |-> FALSE, ret |-> FALSE, elapsed |-> 0, trace |-> <<>>]

\* One effect of a handler: a store write, an adapter call or a message.
Effect(op, a) == [op |-> op, a |-> a, text |-> ""]

\* One external attempt and whether it succeeded: bot.send_message to chat `a`
\* (it raises when it fails), send_magic_packet number `a` (it returns False).
Attempt(op, a, ok) == [op |-> op, a |-> a, text |-> IF ok THEN "ok" ELSE "failed"]

\* A reply to the sender's own chat (message.answer, callback.answer, edit_text).
Answer(text) == [op |-> "answer", a |-> 0, text |-> text]

Did(task, op) == \E i \in DOMAIN task.trace : task.trace[i].op = op

\* The effects of a task that are more than a reply to its sender.
SideEffects(task) ==
    {i \in DOMAIN task.trace : task.trace[i].op # "answer"}

\* The handler of slot t moves on: new program counter, effects appended.
Go(self, pc, effects) == [self EXCEPT !.pc = pc, !.trace = self.trace \o effects]

Init ==
    /\ settings = [admin_ids |-> parse_admin_ids(ADMIN_IDS)]
    /\ users = <<>>
    /\ auth_requests = <<>>
    /\ log_entries = <<>>
    /\ pc_status = <<>>
    /\ tasks = [t \in Slots |-> Idle]
    /\ nevents = 0

\* An update arrives and slot t starts its handler.
Receive(t, kind, sender, arg) ==
    /\ tasks[t] = Idle
    /\ tasks' = [tasks EXCEPT ![t] =
            [Idle EXCEPT !.kind = kind, !.sender = sender, !.arg = arg,
                         !.pc = "begin"]]
    /\ nevents' = nevents + 1
    /\ UNCHANGED <<settings, store>>

\* The handler has returned (pc "done") or an exception has left it (pc
\* "raised"): the dispatcher drops the task.
Finish(t) ==
    /\ tasks[t].pc \in {"done", "raised"}
    /\ tasks' = [tasks EXCEPT ![t] = Idle]
    /\ UNCHANGED <<settings, store, nevents>>

\* The task of slot t becomes `self`; no handler writes the settings.
Step(t, self) == tasks' = [tasks EXCEPT ![t] = self] /\ UNCHANGED settings

\* ------------------------------------------------ services/notifications.py
\* Fault: a loop with the try around it, so that the first failed send ends it.
notify_admins_until_failure(t, self, next, answer) ==
    /\ self.pc = "notify_admins"
    /\ IF self.i <= Len(admin_ids)
       THEN \E ok \in BOOLEAN :
              Step(t, Go([self EXCEPT !.i = self.i + 1,
                             !.sent_count = self.sent_count + (IF ok THEN 1 ELSE 0)],
                         IF ok THEN "notify_admins" ELSE next,
                         <<Attempt("send_message", admin_ids[self.i], ok)>>))
       ELSE Step(t, Go(self, next, answer))

\* NotificationService.notify_admins, run by the task of slot t from pc
\* "notify_admins" with i = 1 and sent_count = 0: one send_message per entry
\* of settings.admin_ids; a send that raises is logged and not counted.  The
\* task goes to `next` when the loop ends.
notify_admins(t, self, next, answer) ==
    /\ self.pc = "notify_admins"
    /\ IF self.i <= Len(admin_ids)
       THEN \E ok \in BOOLEAN :
              Step(t, Go([self EXCEPT !.i = self.i + 1,
                             !.sent_count = self.sent_count + (IF ok THEN 1 ELSE 0)],
                         "notify_admins",
                         <<Attempt("send_message", admin_ids[self.i], ok)>>))
       ELSE Step(t, Go(self, next, answer))

\* --------------------------------------------- handlers/authorization.py
\* /start
cmd_start(t) ==
    LET self == tasks[t] IN
    /\ self.kind = "/start"
    /\ UNCHANGED <<auth_requests, pc_status, nevents>>
    /\ \/ /\ self.pc = "begin"
          /\ LET user == get_user_by_telegram_id(self.sender) IN
                IF user = NoUser
                THEN Step(t, Go(self, "create_user", <<>>))
                ELSE Step(t, Go([self EXCEPT !.user = user], "done",
                                <<Answer("welcome")>>))
          /\ UNCHANGED <<users, log_entries>>
       \/ /\ self.pc = "create_user"
          /\ IF IntegrityError(self.sender)
             THEN \* create_user raises and nothing in cmd_start catches it
                  /\ Step(t, Go(self, "raised", <<>>))
                  /\ UNCHANGED users
             ELSE /\ users' = create_user(self.sender)
                  /\ Step(t, Go([self EXCEPT !.user = users'[self.sender]],
                                "log", <<Effect("create_user", self.sender)>>))
          /\ UNCHANGED log_entries
       \/ /\ self.pc = "log"
          /\ log_entries' = add_log_entry("user_created", self.user.id)
          /\ Step(t, Go(self, "done",
                        <<Effect("add_log_entry", self.user.id), Answer("welcome")>>))
          /\ UNCHANGED users

\* Fault: a decision that makes an admin of whoever it approves.
AuthDecidedAdmin(user, action, user_id) ==
    [user EXCEPT !.is_authorized = (action = "approve"),
                 !.is_admin = (action = "approve")]

\* The object cmd_auth holds after lines 130-131.
AuthDecided(user, action, user_id) ==
    [user EXCEPT !.is_authorized = (action = "approve"),
                 !.is_admin = (action = "approve" /\ InAdminIds(user_id))]

\* /auth USER_ID approve|reject
cmd_auth(t) ==
    LET self == tasks[t] IN
    /\ self.kind = "/auth"
    /\ UNCHANGED <<auth_requests, pc_status, nevents>>
    /\ \/ /\ self.pc = "begin"
          /\ IF ~InAdminIds(self.sender)
             THEN Step(t, Go(self, "done", <<Answer("denied")>>))
             ELSE IF self.arg.form = "short"
             THEN Step(t, Go(self, "done", <<Answer("usage")>>))
             ELSE IF self.arg.form = "nonnumeric"
             THEN Step(t, Go(self, "done", <<Answer("invalid")>>))
             ELSE IF self.arg.action \notin {"approve", "reject"}
             THEN Step(t, Go(self, "done", <<Answer("invalid")>>))
             ELSE LET user == get_user_by_telegram_id(self.arg.id) IN
                  IF user = NoUser
                  THEN Step(t, Go(self, "done", <<Answer("not found")>>))
                  ELSE Step(t, Go([self EXCEPT !.user = user], "update_user", <<>>))
          /\ UNCHANGED <<users, log_entries>>
       \/ /\ self.pc = "update_user"
          /\ users' = update_user(self.user,
                          AuthDecided(self.user, self.arg.action, self.arg.id))
          /\ Step(t, Go([self EXCEPT !.user = users'[self.user.telegram_id]],
                        "log", <<Effect("update_user", self.arg.id)>>))
          /\ UNCHANGED log_entries
       \/ /\ self.pc = "log"
          /\ log_entries' = add_log_entry("auth_" \o self.arg.action, self.sender)
          /\ Step(t, Go(self, "notify", <<Effect("add_log_entry", self.sender)>>))
          /\ UNCHANGED users
       \/ /\ self.pc = "notify"
          /\ Step(t, Go(self, "done",
                        <<Effect("send_message", self.arg.id), Answer(self.arg.action)>>))
          /\ UNCHANGED <<users, log_entries>>

\* "request_auth" button
callback_request_auth(t) ==
    LET self == tasks[t] IN
    /\ self.kind = "request_auth"
    /\ UNCHANGED <<users, pc_status, nevents>>
    /\ \/ /\ self.pc = "begin"
          /\ LET user == get_user_by_telegram_id(self.sender) IN
                IF user # NoUser /\ user.is_authorized
                THEN Step(t, Go(self, "done", <<Answer("already authorized")>>))
                ELSE IF user # NoUser
                THEN Step(t, Go([self EXCEPT !.user = user], "create_auth_request", <<>>))
                ELSE Step(t, Go(self, "done", <<Answer("use /start first")>>))
          /\ UNCHANGED <<auth_requests, log_entries>>
       \/ /\ self.pc = "create_auth_request"
          /\ auth_requests' = create_auth_request(self.user.id)
          /\ Step(t, Go(self, "log", <<Effect("create_auth_request", self.user.id)>>))
          /\ UNCHANGED log_entries
       \/ /\ self.pc = "log"
          /\ log_entries' = add_log_entry("auth_request", self.user.id)
          /\ Step(t, Go([self EXCEPT !.i = 1], "notify_admins",
                        <<Effect("add_log_entry", self.user.id)>>))
          /\ UNCHANGED auth_requests
       \/ /\ notify_admins(t, self, "done", <<Answer("request sent")>>)
          /\ UNCHANGED <<auth_requests, log_entries>>

\* Fault: an approval that grants the admin flag to whoever is approved.
ApprovedAsAdmin(user, user_id) ==
    [user EXCEPT !.is_authorized = TRUE, !.is_admin = TRUE]

\* Fault: a rejection that takes the admin flag away as well, as /auth does.
RejectedAndDemoted(user) == [user EXCEPT !.is_authorized = FALSE, !.is_admin = FALSE]

\* Fault: a rejection that leaves the record as it was read.
NotRejected(user) == user

\* Fault: an approval that leaves the record as it was read.
Unapproved(user, user_id) == user

\* The object callback_auth_approve holds after lines 217-218.
Approved(user, user_id) ==
    [user EXCEPT !.is_authorized = TRUE, !.is_admin = InAdminIds(user_id)]

\* The object callback_auth_reject holds after line 261.
Rejected(user) == [user EXCEPT !.is_authorized = FALSE]

\* "auth_approve_<id>" and "auth_reject_<id>" buttons: the two handlers differ
\* in the object they write, the audit action and the texts.
callback_auth_decision(t, kind, action) ==
    LET self == tasks[t] IN
    /\ self.kind = kind
    /\ UNCHANGED <<auth_requests, pc_status, nevents>>
    /\ \/ /\ self.pc = "begin"
          /\ IF ~InAdminIds(self.sender)
             THEN Step(t, Go(self, "done", <<Answer("denied")>>))
             ELSE IF self.arg.form = "nonnumeric"
             THEN Step(t, Go(self, "done", <<Answer("invalid")>>))
             ELSE LET user == get_user_by_telegram_id(self.arg.id) IN
                  IF user = NoUser
                  THEN Step(t, Go(self, "done", <<Answer("not found")>>))
                  ELSE Step(t, Go([self EXCEPT !.user = user], "update_user", <<>>))
          /\ UNCHANGED <<users, log_entries>>
       \/ /\ self.pc = "update_user"
          /\ users' = update_user(self.user,
                          IF action = "approved"
                          THEN Approved(self.user, self.arg.id)
                          ELSE Rejected(self.user))
          /\ Step(t, Go([self EXCEPT !.user = users'[self.user.telegram_id]],
                        "log", <<Effect("update_user", self.arg.id)>>))
          /\ UNCHANGED log_entries
       \/ /\ self.pc = "log"
          /\ log_entries' = add_log_entry("auth_" \o action, self.sender)
          /\ Step(t, Go(self, "notify", <<Effect("add_log_entry", self.sender)>>))
          /\ UNCHANGED users
       \/ /\ self.pc = "notify"
          /\ Step(t, Go(self, "done",
                        <<Effect("send_message", self.arg.id), Answer(action)>>))
          /\ UNCHANGED <<users, log_entries>>

callback_auth_approve(t) == callback_auth_decision(t, "auth_approve_", "approved")

callback_auth_reject(t) == callback_auth_decision(t, "auth_reject_", "rejected")

\* A handler that checks the static admin list and then only reads the store
\* and answers: "admin_auth" (pending requests), /logs and "admin_logs".
AdminView(t, kind) ==
    LET self == tasks[t] IN
    /\ self.kind = kind
    /\ self.pc = "begin"
    /\ IF ~InAdminIds(self.sender)
       THEN Step(t, Go(self, "done", <<Answer("denied")>>))
       ELSE Step(t, Go(self, "done", <<Answer("view")>>))
    /\ UNCHANGED <<store, nevents>>

callback_admin_auth(t) == AdminView(t, "admin_auth")

\* ------------------------------------------------------------ bot/filters.py
\* Fault: a filter that lets through every sender with a record, whatever the
\* record says now.
IsRegistered(sender) == get_user_by_telegram_id(sender) # NoUser

\* IsAuthorized.__call__ on the sender of the update.
IsAuthorized(sender) ==
    LET user == get_user_by_telegram_id(sender) IN
    user # NoUser /\ user.is_authorized

\* Fault: a check that only looks for the record.
NoRecord(user) == user = NoUser

\* The check `not user or not user.is_authorized` the command handlers make on
\* the record they have just read.
NotAuthorized(user) == user = NoUser \/ ~user.is_authorized

\* IsAdmin.__call__: the admin list first, the stored flag second.
IsAdmin(sender) ==
    \/ InAdminIds(sender)
    \/ LET user == get_user_by_telegram_id(sender) IN user # NoUser /\ user.is_admin

\* A callback whose handler is registered with the IsAuthorized() filter: the
\* filter reads the store; when it fails no handler runs and the update is
\* left unhandled, with no answer.
Filter(t, next) ==
    LET self == tasks[t] IN
    /\ self.pc = "begin"
    /\ IF IsAuthorized(self.sender)
       THEN Step(t, Go(self, next, <<>>))
       ELSE Step(t, Go(self, "done", <<>>))
    /\ UNCHANGED store

\* ---------------------------------------------- handlers/notifications.py
\* Fault: a handler that switches the notifications off whatever they were.
SwitchedOff(user) == [user EXCEPT !.notifications_enabled = FALSE]

\* The object the toggle handlers hold after `not user.notifications_enabled`.
Toggled(user) == [user EXCEPT !.notifications_enabled = ~user.notifications_enabled]

StatusWord(user) == IF user.notifications_enabled THEN "enabled" ELSE "disabled"

\* /notify
cmd_notify(t) ==
    LET self == tasks[t] IN
    /\ self.kind = "/notify"
    /\ UNCHANGED <<auth_requests, pc_status, nevents>>
    /\ \/ /\ self.pc = "begin"
          /\ LET user == get_user_by_telegram_id(self.sender) IN
                IF NotAuthorized(user)
                THEN Step(t, Go(self, "done", <<Answer("denied")>>))
                ELSE Step(t, Go([self EXCEPT !.user = user], "update_user", <<>>))
          /\ UNCHANGED <<users, log_entries>>
       \/ /\ self.pc = "update_user"
          /\ users' = update_user(self.user, Toggled(self.user))
          /\ LET user == users'[self.user.telegram_id] IN
                Step(t, Go([self EXCEPT !.user = user], "log",
                           <<Effect("update_user", self.sender),
                             Answer(StatusWord(user))>>))
          /\ UNCHANGED log_entries
       \/ /\ self.pc = "log"
          /\ log_entries' = add_log_entry("notifications_" \o StatusWord(self.user),
                                          self.user.id)
          /\ Step(t, Go(self, "done", <<Effect("add_log_entry", self.user.id)>>))
          /\ UNCHANGED users

\* "toggle_notifications" button, IsAuthorized()
callback_toggle_notifications(t) ==
    LET self == tasks[t] IN
    /\ self.kind = "toggle_notifications"
    /\ UNCHANGED <<auth_requests, log_entries, pc_status, nevents>>
    /\ \/ Filter(t, "get_user")
       \/ /\ self.pc = "get_user"
          /\ LET user == get_user_by_telegram_id(self.sender) IN
                IF user = NoUser
                THEN Step(t, Go(self, "done", <<Answer("not found")>>))
                ELSE Step(t, Go([self EXCEPT !.user = user], "update_user", <<>>))
          /\ UNCHANGED users
       \/ /\ self.pc = "update_user"
          /\ users' = update_user(self.user, Toggled(self.user))
          /\ LET user == users'[self.user.telegram_id] IN
                Step(t, Go([self EXCEPT !.user = user], "done",
                           <<Effect("update_user", self.sender),
                             Answer(StatusWord(user))>>))

\* /logs
cmd_logs(t) == AdminView(t, "/logs")

\* "admin_logs" button
callback_admin_logs(t) == AdminView(t, "admin_logs")

\* ------------------------------------------------- handlers/pc_control.py
\* SAFE_CMDS, the handler's list for non-admins
SAFE_CMDS == {"ls", "pwd", "whoami", "hostname", "uname", "df", "free",
              "uptime", "ps", "ip"}

\* PCManager.SAFE_COMMANDS
SAFE_COMMANDS == {"ls", "pwd", "whoami", "hostname", "uname", "df", "free",
                  "uptime", "date", "ps", "ip", "cat", "echo", "lsblk", "lscpu"}

\* Fault: execute_command without the check of the first word.
SpawnsUnchecked(base, restricted, allowed) == TRUE

\* PCManager.execute_command: whether the command reaches the shell.  `allowed`
\* is the allowed_commands argument, {} standing for a list and None passed as
\* restricted = FALSE.
Spawns(base, restricted, allowed) ==
    ~(restricted /\ base \notin SAFE_COMMANDS /\ base \notin allowed)

\* Fault: /reboot that schedules the reboot instead of asking.
GatedCall(t, kind, text) ==
    LET self == tasks[t] IN
    /\ self.kind = kind
    /\ self.pc = "begin"
    /\ LET user == get_user_by_telegram_id(self.sender) IN
          IF user = NoUser \/ ~user.is_authorized
          THEN Step(t, Go(self, "done", <<Answer("denied")>>))
          ELSE Step(t, Go([self EXCEPT !.user = user], "done",
                          <<Effect("PCManager.reboot", 1), Answer(text)>>))
    /\ UNCHANGED <<store, nevents>>

\* A command handler that starts with the check of the sender's record and,
\* when it passes, only answers: /reboot and /shutdown send the confirmation
\* prompt.
GatedAnswer(t, kind, text) ==
    LET self == tasks[t] IN
    /\ self.kind = kind
    /\ self.pc = "begin"
    /\ LET user == get_user_by_telegram_id(self.sender) IN
          IF NotAuthorized(user)
          THEN Step(t, Go(self, "done", <<Answer("denied")>>))
          ELSE Step(t, Go([self EXCEPT !.user = user], "done", <<Answer(text)>>))
    /\ UNCHANGED <<store, nevents>>

\* The first segment of the other command handlers: the same check, then on.
Gate(t, next) ==
    LET self == tasks[t] IN
    /\ self.pc = "begin"
    /\ LET user == get_user_by_telegram_id(self.sender) IN
          IF NotAuthorized(user)
          THEN Step(t, Go(self, "done", <<Answer("denied")>>))
          ELSE Step(t, Go([self EXCEPT !.user = user], next, <<>>))
    /\ UNCHANGED store

\* /reboot
cmd_reboot(t) == GatedAnswer(t, "/reboot", "confirm reboot")

\* /shutdown
cmd_shutdown(t) == GatedAnswer(t, "/shutdown", "confirm shutdown")

\* /screenshot and the "pc_screenshot" button share the capture and its audit.
Screenshot(t, self) ==
    \/ /\ self.pc = "take_screenshot"
       /\ \E data \in BOOLEAN :
            Step(t, Go(self, IF data THEN "log" ELSE "done",
                       <<Effect("PCManager.take_screenshot", 0),
                         Answer(IF data THEN "photo" ELSE "failed")>>))
       /\ UNCHANGED store
    \/ /\ self.pc = "log"
       /\ log_entries' = add_log_entry("screenshot_taken", self.user.id)
       /\ Step(t, Go(self, "done", <<Effect("add_log_entry", self.user.id)>>))
       /\ UNCHANGED <<users, auth_requests, pc_status>>

\* /screenshot
cmd_screenshot(t) ==
    LET self == tasks[t] IN
    /\ self.kind = "/screenshot"
    /\ UNCHANGED nevents
    /\ (Gate(t, "take_screenshot") \/ Screenshot(t, self))

\* /cancel
cmd_cancel(t) ==
    LET self == tasks[t] IN
    /\ self.kind = "/cancel"
    /\ UNCHANGED <<users, auth_requests, pc_status, nevents>>
    /\ \/ Gate(t, "cancel_shutdown")
       \/ /\ self.pc = "cancel_shutdown"
          /\ \E ok \in BOOLEAN :
               Step(t, Go(self, IF ok THEN "log" ELSE "done",
                          <<Effect("PCManager.cancel_shutdown", 0),
                            Answer(IF ok THEN "cancelled" ELSE "nothing to cancel")>>))
          /\ UNCHANGED log_entries
       \/ /\ self.pc = "log"
          /\ log_entries' = add_log_entry("shutdown_cancelled", self.user.id)
          /\ Step(t, Go(self, "done", <<Effect("add_log_entry", self.user.id)>>))

\* /cmd <command>; arg.action is the first word of the command, "" for none.
cmd_command(t) ==
    LET self == tasks[t] IN
    /\ self.kind = "/cmd"
    /\ UNCHANGED <<users, auth_requests, pc_status, nevents>>
    /\ \/ /\ self.pc = "begin"
          /\ LET user == get_user_by_telegram_id(self.sender) IN
                IF NotAuthorized(user)
                THEN Step(t, Go(self, "done", <<Answer("denied")>>))
                ELSE IF self.arg.action = ""
                THEN Step(t, Go(self, "done", <<Answer("usage")>>))
                ELSE Step(t, Go([self EXCEPT !.user = user], "execute_command",
                                <<Answer("executing")>>))
          /\ UNCHANGED log_entries
       \/ /\ self.pc = "execute_command"
          /\ IF Spawns(self.arg.action, ~self.user.is_admin, SAFE_CMDS)
             THEN Step(t, Go(self, "log",
                             <<Effect("create_subprocess_shell", 0), Answer("output")>>))
             ELSE Step(t, Go(self, "log", <<Answer("not in the allowed list")>>))
          /\ UNCHANGED log_entries
       \/ /\ self.pc = "log"
          /\ log_entries' = add_log_entry("command_executed", self.user.id)
          /\ Step(t, Go(self, "done", <<Effect("add_log_entry", self.user.id)>>))

\* /processes
cmd_processes(t) ==
    LET self == tasks[t] IN
    /\ self.kind = "/processes"
    /\ UNCHANGED <<store, nevents>>
    /\ \/ Gate(t, "get_running_processes")
       \/ /\ self.pc = "get_running_processes"
          /\ Step(t, Go(self, "done",
                        <<Effect("PCManager.get_running_processes", 15),
                          Answer("processes")>>))

\* A button whose handler, behind IsAuthorized(), only answers: "pc_commands",
\* "pc_reboot" and "pc_shutdown" (the confirmation prompt), and in wol.py
\* "pc_wake" and "pc_status".
FilteredAnswer(t, kind, text) ==
    LET self == tasks[t] IN
    /\ self.kind = kind
    /\ UNCHANGED nevents
    /\ \/ Filter(t, "answer")
       \/ /\ self.pc = "answer"
          /\ Step(t, Go(self, "done", <<Answer(text)>>))
          /\ UNCHANGED store

callback_pc_commands(t) == FilteredAnswer(t, "pc_commands", "menu")

callback_pc_reboot(t) == FilteredAnswer(t, "pc_reboot", "confirm reboot")

callback_pc_shutdown(t) == FilteredAnswer(t, "pc_shutdown", "confirm shutdown")

\* The second read the filtered handlers make: `if not user`.
GetUser(t, self, next) ==
    /\ self.pc = "get_user"
    /\ LET user == get_user_by_telegram_id(self.sender) IN
          IF user = NoUser
          THEN Step(t, Go(self, "done", <<Answer("denied")>>))
          ELSE Step(t, Go([self EXCEPT !.user = user], next, <<>>))
    /\ UNCHANGED store

\* "pc_screenshot" button
callback_pc_screenshot(t) ==
    LET self == tasks[t] IN
    /\ self.kind = "pc_screenshot"
    /\ UNCHANGED nevents
    /\ \/ Filter(t, "get_user")
       \/ GetUser(t, self, "take_screenshot")
       \/ Screenshot(t, self)

\* "pc_cancel" button
callback_pc_cancel(t) ==
    LET self == tasks[t] IN
    /\ self.kind = "pc_cancel"
    /\ UNCHANGED nevents
    /\ \/ Filter(t, "cancel_shutdown")
       \/ /\ self.pc = "cancel_shutdown"
          /\ Step(t, Go(self, "done",
                        <<Effect("PCManager.cancel_shutdown", 0), Answer("cancel")>>))
          /\ UNCHANGED store

\* "pc_processes" button
callback_pc_processes(t) ==
    LET self == tasks[t] IN
    /\ self.kind = "pc_processes"
    /\ UNCHANGED nevents
    /\ \/ Filter(t, "get_running_processes")
       \/ /\ self.pc = "get_running_processes"
          /\ Step(t, Go(self, "done",
                        <<Effect("PCManager.get_running_processes", 10),
                          Answer("processes")>>))
          /\ UNCHANGED store

\* "confirm_<action>" button, IsAuthorized().  Line 358 calls
\* NotificationService() with no argument, and __init__(self, bot) has no
\* default for bot: the call raises TypeError before the action is looked at.
\* Lines 360-385 (the PCManager call, the audit entry, the fan-out) are never
\* reached.
callback_confirm(t) ==
    LET self == tasks[t] IN
    /\ self.kind = "confirm_"
    /\ UNCHANGED nevents
    /\ \/ Filter(t, "get_user")
       \/ /\ self.pc = "get_user"
          /\ LET user == get_user_by_telegram_id(self.sender) IN
                IF user = NoUser
                THEN Step(t, Go(self, "done", <<Answer("denied")>>))
                ELSE Step(t, Go([self EXCEPT !.user = user], "raised", <<>>))
          /\ UNCHANGED store

\* "cancel_action" button: no filter, no check
callback_cancel_action(t) ==
    LET self == tasks[t] IN
    /\ self.kind = "cancel_action"
    /\ self.pc = "begin"
    /\ Step(t, Go(self, "done", <<Answer("cancelled")>>))
    /\ UNCHANGED <<store, nevents>>

\* The index of the next user of the list that notify_all_users sends to:
\* entries with notifications_enabled false are skipped (`continue`).
RECURSIVE NextRecipientStored(_, _)
RECURSIVE NextRecipient(_, _)
\* Fault: a loop that looks each user up again before sending, and skips the
\* ones the store no longer shows authorized with notifications enabled.
NextRecipientStored(list, i) ==
    IF i > Len(list) THEN i
    ELSE IF /\ users[list[i].telegram_id].is_authorized
            /\ users[list[i].telegram_id].notifications_enabled THEN i
    ELSE NextRecipientStored(list, i + 1)

NextRecipient(list, i) ==
    IF i > Len(list) THEN i
    ELSE IF list[i].notifications_enabled THEN i
    ELSE NextRecipient(list, i + 1)

\* NotificationService.notify_all_users, run by the task of slot t: the read
\* of the authorized users (pc "notify_all_users"), then one send_message per
\* recipient (pc "send"); a send that raises is logged and not counted.  The
\* task goes to `next` when the loop ends.
notify_all_users(t, self, next, answer) ==
    \/ /\ self.pc = "notify_all_users"
       /\ Step(t, Go([self EXCEPT !.list = get_all_authorized_users, !.i = 1,
                                  !.sent_count = 0], "send", answer))
       /\ UNCHANGED store
    \/ /\ self.pc = "send"
       /\ LET j == NextRecipient(self.list, self.i) IN
            IF j > Len(self.list)
            THEN Step(t, Go([self EXCEPT !.i = j], next, <<>>))
            ELSE \E ok \in BOOLEAN :
                   Step(t, Go([self EXCEPT !.i = j + 1,
                                  !.sent_count = self.sent_count + (IF ok THEN 1 ELSE 0)],
                              "send",
                              <<Attempt("send_message", self.list[j].telegram_id, ok)>>))
       /\ UNCHANGED store

\* ---------------------------------------------------------- services/wol.py
\* Fault: a loop that goes through the whole range and reports at the end
\* whether some packet went out.
wake_every_retry(t, self, retries, sent, failed, answer) ==
    /\ self.pc = "wake"
    /\ IF self.i < retries
       THEN \E success \in BOOLEAN :
              Step(t, Go([self EXCEPT !.i = self.i + 1, !.ret = self.ret \/ success],
                         "wake", <<Attempt("send_magic_packet", self.i + 1, success)>>))
       ELSE Step(t, Go(self, IF self.ret THEN sent ELSE failed, answer[self.ret]))

\* WakeOnLanService.wake(retries), run by the task of slot t from pc "wake"
\* with i = 0: `for attempt in range(retries)`, i being the attempts made so
\* far.  Each pass calls send_magic_packet, which returns False when the
\* socket fails; the first success returns True, the end of the range False.
\* The task goes on to `sent` or to `failed` with the return value in ret.
wake(t, self, retries, sent, failed, answer) ==
    /\ self.pc = "wake"
    /\ IF self.i < retries
       THEN \E success \in BOOLEAN :
              IF success
              THEN Step(t, Go([self EXCEPT !.i = self.i + 1, !.ret = TRUE], sent,
                              <<Attempt("send_magic_packet", self.i + 1, TRUE)>>
                                 \o answer[TRUE]))
              ELSE Step(t, Go([self EXCEPT !.i = self.i + 1], "wake",
                              <<Attempt("send_magic_packet", self.i + 1, FALSE)>>))
       ELSE Step(t, Go([self EXCEPT !.ret = FALSE], failed, answer[FALSE]))

\* Fault: a loop that makes one more pass when elapsed has reached the timeout.
UntilPastTimeout(elapsed, timeout) == elapsed <= timeout

\* verify_wake: `while elapsed < timeout`
WithinTimeout(elapsed, timeout) == elapsed < timeout

\* verify_wake: `check_interval = 2.0`, in seconds.
check_interval == 2

\* WakeOnLanService.verify_wake(timeout), run by the task of slot t from pc
\* "verify_wake" with elapsed = 0: `while elapsed < timeout`, each pass one
\* check_port_open (a connect with a timeout of its own, True or False), a
\* return of True when the port is open, otherwise the sleep and `elapsed +=
\* check_interval`; False when the loop ends.  The return value lands in
\* is_online, and `exit` is what the caller's trace gets on the return.  With
\* `traced` every check goes into the trace.
verify_wake(t, self, timeout, next, exit, traced) ==
    /\ self.pc = "verify_wake"
    /\ IF WithinTimeout(self.elapsed, timeout)
       THEN \E open \in BOOLEAN :
              LET check == IF traced
                           THEN <<Attempt("check_port_open", self.elapsed, open)>>
                           ELSE <<>>
              IN  IF open
                  THEN Step(t, Go([self EXCEPT !.is_online = TRUE, !.elapsed = 0],
                                  next, check \o exit))
                  ELSE Step(t, Go([self EXCEPT !.elapsed = self.elapsed + check_interval],
                                  "verify_wake", check))
       ELSE Step(t, Go([self EXCEPT !.is_online = FALSE, !.elapsed = 0], next, exit))

\* ---------------------------------------------------------- handlers/wol.py
\* /wake
cmd_wake(t) ==
    LET self == tasks[t] IN
    /\ self.kind = "/wake"
    /\ UNCHANGED nevents
    /\ \/ Gate(t, "wake")
       \/ /\ wake(t, self, 3, "select_wake", "done",
                  [success \in BOOLEAN |->
                     <<Answer(IF success THEN "packet sent" ELSE "failed to send")>>])
          /\ UNCHANGED store
       \/ /\ self.pc = "select_wake"
          /\ IF SelectPCStatusRaises
             THEN Step(t, Go(self, "done", <<Answer("error")>>))
             ELSE Step(t, Go([self EXCEPT !.i = SelectPCStatus], "commit_wake", <<>>))
          /\ UNCHANGED store
       \/ /\ self.pc = "commit_wake"
          /\ pc_status' = update_last_wake_attempt(self.i)
          /\ Step(t, Go(self, "log", <<Effect("update_last_wake_attempt", 0)>>))
          /\ UNCHANGED <<users, auth_requests, log_entries>>
       \/ /\ self.pc = "log"
          /\ log_entries' = add_log_entry("wake_sent", self.user.id)
          /\ Step(t, Go(self, "verify_wake", <<Effect("add_log_entry", self.user.id)>>))
          /\ UNCHANGED <<users, auth_requests, pc_status>>
       \/ /\ verify_wake(t, self, 30, "select_status",
                         <<Effect("WakeOnLanService.verify_wake", 30)>>, FALSE)
          /\ UNCHANGED store
       \/ /\ self.pc = "select_status"
          /\ IF SelectPCStatusRaises
             THEN Step(t, Go(self, "done", <<Answer("error")>>))
             ELSE Step(t, Go([self EXCEPT !.i = SelectPCStatus], "commit_status", <<>>))
          /\ UNCHANGED store
       \/ /\ self.pc = "commit_status"
          /\ pc_status' = update_pc_status(self.i, self.is_online)
          /\ IF ~self.is_online
             THEN Step(t, Go(self, "done",
                             <<Effect("update_pc_status", 0), Answer("not responding")>>))
             ELSE IF notify_on_pc_status
             THEN Step(t, Go(self, "notify_all_users",
                             <<Effect("update_pc_status", 0), Answer("online")>>))
             ELSE Step(t, Go(self, "done",
                             <<Effect("update_pc_status", 0), Answer("online")>>))
          /\ UNCHANGED <<users, auth_requests, log_entries>>
       \/ notify_all_users(t, self, "done", <<>>)

\* /status: wol_router is included before pc_router, so this handler takes
\* the command and pc_control.cmd_status never runs.
cmd_status(t) ==
    LET self == tasks[t] IN
    /\ self.kind = "/status"
    /\ UNCHANGED nevents
    /\ \/ Gate(t, "check_online")
       \/ /\ self.pc = "check_online"
          /\ \E is_online \in BOOLEAN :
               Step(t, Go([self EXCEPT !.is_online = is_online], "select_status",
                          <<Answer("checking"), Effect("PCManager.check_online", 0)>>))
          /\ UNCHANGED store
       \/ /\ self.pc = "select_status"
          /\ IF SelectPCStatusRaises
             THEN Step(t, Go(self, "done", <<Answer("error")>>))
             ELSE Step(t, Go([self EXCEPT !.i = SelectPCStatus], "commit_status", <<>>))
          /\ UNCHANGED store
       \/ /\ self.pc = "commit_status"
          /\ pc_status' = update_pc_status(self.i, self.is_online)
          /\ Step(t, Go(self, "log", <<Effect("update_pc_status", 0), Answer("status")>>))
          /\ UNCHANGED <<users, auth_requests, log_entries>>
       \/ /\ self.pc = "log"
          /\ log_entries' = add_log_entry("status_check", self.user.id)
          /\ Step(t, Go(self, "done", <<Effect("add_log_entry", self.user.id)>>))
          /\ UNCHANGED <<users, auth_requests, pc_status>>

\* "pc_wake" button
callback_pc_wake(t) == FilteredAnswer(t, "pc_wake", "use /wake")

\* "pc_status" button: the wol.py handler takes it (see cmd_status)
callback_pc_status(t) == FilteredAnswer(t, "pc_status", "use /status")

\* --------------------------------------------------------- handlers/dota.py
\* /dota
cmd_dota(t) ==
    LET self == tasks[t] IN
    /\ self.kind = "/dota"
    /\ UNCHANGED <<users, auth_requests, pc_status, nevents>>
    /\ \/ /\ Gate(t, "get_player_status")
       \/ /\ self.pc = "get_player_status"
          /\ Step(t, Go(self, "log",
                        <<Answer("loading"), Effect("DotaMonitor.get_player_status", 0),
                          Answer("status")>>))
          /\ UNCHANGED log_entries
       \/ /\ self.pc = "log"
          /\ log_entries' = add_log_entry("dota_status_check", self.user.id)
          /\ Step(t, Go(self, "done", <<Effect("add_log_entry", self.user.id)>>))

\* /dotahistory and /dotalive: after the check and the "loading" reply the
\* handler calls get_match_history(limit=10), whose parameter is named
\* matches_requested (TypeError), or get_live_match(), which DotaMonitor does
\* not define (AttributeError).
DotaRaises(t, kind) ==
    LET self == tasks[t] IN
    /\ self.kind = kind
    /\ self.pc = "begin"
    /\ LET user == get_user_by_telegram_id(self.sender) IN
          IF NotAuthorized(user)
          THEN Step(t, Go(self, "done", <<Answer("denied")>>))
          ELSE Step(t, Go([self EXCEPT !.user = user], "raised", <<Answer("loading")>>))
    /\ UNCHANGED <<store, nevents>>

cmd_dota_history(t) == DotaRaises(t, "/dotahistory")

cmd_dota_live(t) == DotaRaises(t, "/dotalive")

\* /dotabuffs [match_id]: get_match_history(limit=1) raises TypeError when the
\* id is left out, get_match_buffs is not defined when it is given.
cmd_dota_buffs(t) ==
    LET self == tasks[t] IN
    /\ self.kind = "/dotabuffs"
    /\ self.pc = "begin"
    /\ LET user == get_user_by_telegram_id(self.sender) IN
          IF NotAuthorized(user)
          THEN Step(t, Go(self, "done", <<Answer("denied")>>))
          ELSE IF self.arg.form = "short"
          THEN Step(t, Go([self EXCEPT !.user = user], "raised", <<>>))
          ELSE IF self.arg.form = "nonnumeric"
          THEN Step(t, Go([self EXCEPT !.user = user], "done", <<Answer("invalid")>>))
          ELSE Step(t, Go([self EXCEPT !.user = user], "raised", <<Answer("loading")>>))
    /\ UNCHANGED <<store, nevents>>

\* "dota_status" button
callback_dota_status(t) ==
    LET self == tasks[t] IN
    /\ self.kind = "dota_status"
    /\ UNCHANGED nevents
    /\ \/ Filter(t, "get_user")
       \/ GetUser(t, self, "get_player_status")
       \/ /\ self.pc = "get_player_status"
          /\ Step(t, Go(self, "done",
                        <<Effect("DotaMonitor.get_player_status", 0), Answer("status")>>))
          /\ UNCHANGED store

\* "dota_live" and "dota_history" buttons: the same two calls as the commands.
DotaButtonRaises(t, kind, answers) ==
    LET self == tasks[t] IN
    /\ self.kind = kind
    /\ UNCHANGED nevents
    /\ \/ Filter(t, "get_user")
       \/ /\ self.pc = "get_user"
          /\ LET user == get_user_by_telegram_id(self.sender) IN
                IF user = NoUser
                THEN Step(t, Go(self, "done", <<Answer("denied")>>))
                ELSE Step(t, Go([self EXCEPT !.user = user], "raised", answers))
          /\ UNCHANGED store

callback_dota_live(t) == DotaButtonRaises(t, "dota_live", <<Answer("searching")>>)

callback_dota_history(t) == DotaButtonRaises(t, "dota_history", <<>>)

\* -------------------------------------------------------- handlers/voice.py
\* services/voice_handler.py WHISPER_AVAILABLE: the package is installed.
WHISPER_AVAILABLE == TRUE

\* The adapter call of each `case` of the match statement, with its argument.
VoiceCall(command) ==
    CASE command = "reboot" -> Effect("PCManager.reboot", 1)
      [] command = "shutdown" -> Effect("PCManager.shutdown", 1)
      [] command = "cancel" -> Effect("PCManager.cancel_shutdown", 0)
      [] command = "wake" -> Effect("WakeOnLanService.wake", 3)
      [] command = "screenshot" -> Effect("PCManager.take_screenshot", 0)
      [] command = "status" -> Effect("PCManager.get_system_info", 0)
      [] command = "processes" -> Effect("PCManager.get_running_processes", 10)
      [] OTHER -> Effect("DotaMonitor.get_player_status", 0)

\* A voice or audio message, IsAuthorized().  arg.form is "no_text" when the
\* transcription fails; arg.action is the command parse_command maps the text
\* to, "" for None.
handle_voice_message(t) ==
    LET self == tasks[t] IN
    /\ self.kind = "voice"
    /\ UNCHANGED <<users, auth_requests, pc_status, nevents>>
    /\ \/ /\ Filter(t, "get_user")
       \/ /\ self.pc = "get_user"
          /\ IF ~WHISPER_AVAILABLE
             THEN Step(t, Go(self, "done", <<Answer("unavailable")>>))
             ELSE LET user == get_user_by_telegram_id(self.sender) IN
                  IF NotAuthorized(user)
                  THEN Step(t, Go(self, "done", <<Answer("denied")>>))
                  ELSE Step(t, Go([self EXCEPT !.user = user], "download_file",
                                  <<Answer("recognising")>>))
          /\ UNCHANGED log_entries
       \/ /\ self.pc = "download_file"
          /\ \E downloaded \in BOOLEAN :
               IF ~downloaded
               THEN Step(t, Go(self, "done", <<Answer("download failed")>>))
               ELSE IF self.arg.form = "no_text"
               THEN Step(t, Go(self, "done", <<Answer("recognition failed")>>))
               ELSE IF self.arg.action = ""
               THEN Step(t, Go(self, "done", <<Answer("not recognised")>>))
               ELSE Step(t, Go(self, "log", <<Answer("executing")>>))
          /\ UNCHANGED log_entries
       \/ /\ self.pc = "log"
          /\ log_entries' = add_log_entry("voice_command_" \o self.arg.action,
                                          self.user.id)
          /\ Step(t, Go(self, "execute", <<Effect("add_log_entry", self.user.id)>>))
       \/ /\ self.pc = "execute"
          /\ Step(t, Go(self, "done",
                        <<VoiceCall(self.arg.action), Answer("result"),
                          Answer("main menu")>>))
          /\ UNCHANGED log_entries

\* ------------------------------------------------- handlers that only answer
\* /help and the "back_to_main" button read the sender's record to pick the
\* keyboard; "show_help" reads nothing.  All three answer whoever asks.
Informational(t, kind) ==
    LET self == tasks[t] IN
    /\ self.kind = kind
    /\ self.pc = "begin"
    /\ Step(t, Go([self EXCEPT !.user = get_user_by_telegram_id(self.sender)],
                  "done", <<Answer("help")>>))
    /\ UNCHANGED <<store, nevents>>

cmd_help(t) == Informational(t, "/help")

callback_back_to_main(t) == Informational(t, "back_to_main")

callback_show_help(t) == Informational(t, "show_help")

\* ------------------------------------------------------------ service calls
\* A direct call of a service or repository method, as a task with no sender:
\* arg.id is the argument (the chat of notify_user, the retries of wake, the
\* limit of get_log_entries).
Call(t, kind, a, pc, i) ==
    /\ tasks[t] = Idle
    /\ tasks' = [tasks EXCEPT ![t] =
            [Idle EXCEPT !.kind = kind, !.arg = [NoArg EXCEPT !.form = "call", !.id = a],
                         !.pc = pc, !.i = i]]
    /\ nevents' = nevents + 1
    /\ UNCHANGED <<settings, store>>

\* NotificationService.notify_user: one send_message; True when it did not raise.
notify_user(t) ==
    LET self == tasks[t] IN
    /\ self.kind = "notify_user"
    /\ self.pc = "notify_user"
    /\ \E ok \in BOOLEAN :
         Step(t, Go([self EXCEPT !.ret = ok], "done",
                    <<Attempt("send_message", self.arg.id, ok)>>))
    /\ UNCHANGED <<store, nevents>>

call_notify_admins(t) ==
    LET self == tasks[t] IN
    /\ self.kind = "notify_admins"
    /\ notify_admins(t, self, "done", <<>>)
    /\ UNCHANGED <<store, nevents>>

call_notify_all_users(t) ==
    LET self == tasks[t] IN
    /\ self.kind = "notify_all_users"
    /\ notify_all_users(t, self, "done", <<>>)
    /\ UNCHANGED nevents

call_wake(t) ==
    LET self == tasks[t] IN
    /\ self.kind = "wake"
    /\ wake(t, self, self.arg.id, "done", "done", [success \in BOOLEAN |-> <<>>])
    /\ UNCHANGED <<store, nevents>>

call_verify_wake(t) ==
    LET self == tasks[t] IN
    /\ self.kind = "verify_wake"
    /\ verify_wake(t, self, self.arg.id, "done", <<>>, TRUE)
    /\ UNCHANGED <<store, nevents>>

\* DotaMonitor._make_request(endpoint, params, max_retries), called directly:
\* arg.form tells whether steam_api_key is set, arg.id is max_retries.
CallRequest(t, steam_api_key, max_retries) ==
    /\ tasks[t] = Idle
    /\ tasks' = [tasks EXCEPT ![t] =
            [Idle EXCEPT !.kind = "_make_request",
                         !.arg = [NoArg EXCEPT !.id = max_retries,
                                     !.form = IF steam_api_key THEN "key" ELSE "no key"],
                         !.pc = "make_request"]]
    /\ nevents' = nevents + 1
    /\ UNCHANGED <<settings, store>>

\* The outcomes of one session.get: the status of the response, 0 standing
\* for a ClientError or another exception with no response.
Statuses == {200, 403, 429, 500, 0}

\* Fault: every failure raised as the plain SteamAPIError.
RaisedPlain(status) == "SteamAPIError"

\* The class of the exception a failed pass raises: the one raised inside the
\* try for the status, SteamAPIError for a ClientError or another exception.
Raised(status) ==
    IF status = 403 THEN "SteamAPIAuthError"
    ELSE IF status = 429 THEN "SteamAPIRateLimitError"
    ELSE "SteamAPIError"

Raise(exception) == [op |-> "raise", a |-> 0, text |-> exception]

\* Fault: no pass is the last one, the loop swallows every failure.
NeverLast(attempt, max_retries) == FALSE

\* `attempt == max_retries - 1`
LastAttempt(attempt, max_retries) == attempt = max_retries - 1

\* DotaMonitor._make_request: None at once with no key; otherwise `for attempt
\* in range(max_retries)`, i being the attempts made so far.  Each pass is one
\* session.get: status 200 returns the JSON (ret TRUE); any other status
\* raises its exception inside the try, and that, a ClientError or any other
\* exception is raised to the caller on the last pass only, while an earlier
\* pass sleeps and goes round again.  None when the range is exhausted.
make_request(t) ==
    LET self == tasks[t] IN
    /\ self.kind = "_make_request"
    /\ self.pc = "make_request"
    /\ IF self.arg.form = "no key"
       THEN Step(t, Go([self EXCEPT !.ret = FALSE], "done", <<>>))
       ELSE IF self.i < self.arg.id
       THEN \E status \in Statuses :
              LET ok == status = 200 IN
              Step(t, Go([self EXCEPT !.i = self.i + 1, !.ret = ok],
                         IF ok THEN "done"
                         ELSE IF LastAttempt(self.i, self.arg.id) THEN "raised"
                         ELSE "make_request",
                         <<Attempt("session.get", self.i + 1, ok),
                           Effect("response.status", status)>>
                           \o (IF ~ok /\ LastAttempt(self.i, self.arg.id)
                               THEN <<Raise(Raised(status))>> ELSE <<>>)))
       ELSE Step(t, Go([self EXCEPT !.ret = FALSE], "done", <<>>))
    /\ UNCHANGED <<store, nevents>>

call_get_log_entries(t) ==
    LET self == tasks[t] IN
    /\ self.kind = "get_log_entries"
    /\ self.pc = "get_log_entries"
    /\ Step(t, Go([self EXCEPT !.list = get_log_entries(self.arg.id)], "done", <<>>))
    /\ UNCHANGED <<store, nevents>>

\* ---------------------------------------------------------------- updates
Arg(form, id, action) == [form |-> form, id |-> id, action |-> action]

\* The ids an admin command or a button payload can name.
TargetIds == UserIds \cup {UnknownId}

Plain(kinds) == {[kind |-> k, arg |-> NoArg] : k \in kinds}

With(kind, args) == {[kind |-> kind, arg |-> a] : a \in args}

AuthorizationUpdates ==
    Plain({"/start", "/help", "request_auth", "admin_auth"})
    \cup With("/auth", {Arg("ok", u, a) : u \in TargetIds, a \in {"approve", "reject"}}
                       \cup {Arg("ok", UnknownId, "promote"), Arg("short", 0, "none"),
                             Arg("nonnumeric", 0, "approve")})
    \cup With("auth_approve_", {Arg("ok", u, "none") : u \in TargetIds}
                               \cup {Arg("nonnumeric", 0, "none")})
    \cup With("auth_reject_", {Arg("ok", u, "none") : u \in TargetIds}
                              \cup {Arg("nonnumeric", 0, "none")})

NotificationUpdates ==
    Plain({"/notify", "toggle_notifications", "/logs", "admin_logs",
           "back_to_main", "show_help"})

PCUpdates ==
    Plain({"/reboot", "/shutdown", "/screenshot", "/cancel", "/processes",
           "pc_commands", "pc_reboot", "pc_shutdown", "pc_screenshot",
           "pc_cancel", "pc_processes", "cancel_action"})
    \cup With("/cmd", {Arg("ok", 0, c) : c \in {"", "ls", "cat", "rm"}})
    \cup With("confirm_", {Arg("ok", 0, a) : a \in {"reboot", "shutdown", "format"}})

WolUpdates == Plain({"/wake", "/status", "pc_wake", "pc_status"})

DotaUpdates ==
    Plain({"/dota", "/dotahistory", "/dotalive", "dota_status", "dota_live",
           "dota_history"})
    \cup With("/dotabuffs", {Arg("short", 0, "none"), Arg("nonnumeric", 0, "none"),
                             Arg("ok", 0, "none")})

VoiceUpdates ==
    With("voice", {Arg("ok", 0, c) : c \in {"reboot", "shutdown", "cancel", "wake", ""}}
                  \cup {Arg("no_text", 0, "")})

Updates ==
    AuthorizationUpdates \cup NotificationUpdates \cup PCUpdates \cup WolUpdates
    \cup DotaUpdates \cup VoiceUpdates

\* ------------------------------------------------------------ specification
\* The handlers of the six routers.
Handle(t) ==
    \/ cmd_start(t) \/ cmd_help(t) \/ cmd_auth(t) \/ callback_request_auth(t)
    \/ callback_auth_approve(t) \/ callback_auth_reject(t) \/ callback_admin_auth(t)
    \/ cmd_wake(t) \/ callback_pc_wake(t) \/ cmd_status(t) \/ callback_pc_status(t)
    \/ cmd_screenshot(t) \/ cmd_reboot(t) \/ cmd_shutdown(t) \/ cmd_cancel(t)
    \/ cmd_command(t) \/ cmd_processes(t) \/ callback_pc_commands(t)
    \/ callback_pc_screenshot(t) \/ callback_pc_reboot(t) \/ callback_pc_shutdown(t)
    \/ callback_pc_cancel(t) \/ callback_pc_processes(t) \/ callback_confirm(t)
    \/ callback_cancel_action(t)
    \/ cmd_dota(t) \/ cmd_dota_history(t) \/ cmd_dota_live(t) \/ cmd_dota_buffs(t)
    \/ callback_dota_status(t) \/ callback_dota_live(t) \/ callback_dota_history(t)
    \/ cmd_notify(t) \/ callback_toggle_notifications(t) \/ cmd_logs(t)
    \/ callback_admin_logs(t) \/ callback_back_to_main(t) \/ callback_show_help(t)
    \/ handle_voice_message(t)
    \/ Finish(t)

\* One update at a time: the next one arrives when the handler of the last
\* has returned.
Next ==
    \/ \E u \in Updates, sender \in UserIds :
         /\ nevents < MaxEvents
         /\ \A s \in Slots : tasks[s] = Idle
         /\ Receive(1, u.kind, sender, u.arg)
    \/ \E t \in Slots : Handle(t)

Spec == Init /\ [][Next]_vars

\* The senders of the two other specifications: the admins decide, the other
\* users use the bot.
Admins == {u \in UserIds : InAdminIds(u)}

NonAdmins == UserIds \ Admins

From(senders, updates) ==
    {[kind |-> u.kind, sender |-> sender, arg |-> u.arg] :
        u \in updates, sender \in senders}

\* The interleaved specification: aiogram starts one task per update, so the
\* handlers of up to MaxInFlight updates run at once and interleave at their
\* suspension points.  It carries the updates that read or write the users
\* table and a game query: the users start, ask for access, toggle and query;
\* an admin approves with the button and rejects with the command; a user
\* taps an approve button with its own id.
ConcurrentUpdates ==
    From(NonAdmins, Plain({"/start", "request_auth", "/notify", "/dota"}))
    \cup From(Admins, With("auth_approve_", {Arg("ok", u, "none") : u \in NonAdmins})
                      \cup With("/auth", {Arg("ok", u, "reject") : u \in NonAdmins}))
    \cup {[kind |-> "auth_approve_", sender |-> u, arg |-> Arg("ok", u, "none")] :
            u \in NonAdmins}

HandleConc(t) ==
    \/ cmd_start(t) \/ cmd_auth(t) \/ callback_request_auth(t)
    \/ callback_auth_approve(t) \/ cmd_notify(t) \/ cmd_dota(t)
    \/ Finish(t)

\* The slot a new task takes: the first idle one.
FreeSlot(t) == tasks[t] = Idle /\ \A s \in Slots : s < t => tasks[s] # Idle

NextConc ==
    \/ \E u \in ConcurrentUpdates, t \in Slots :
         /\ nevents < MaxConcEvents
         /\ FreeSlot(t)
         /\ Receive(t, u.kind, u.sender, u.arg)
    \/ \E t \in Slots : HandleConc(t)

SpecConc == Init /\ [][NextConc]_vars

\* The fan-out specification: one update at a time, the updates that decide
\* who is in the audience and the one that fans out (/wake), long enough for
\* two users to be approved and one of them to opt out.
FanoutUpdates ==
    From(NonAdmins, Plain({"/start", "/notify", "/wake"}))
    \cup From(Admins, With("auth_approve_", {Arg("ok", u, "none") : u \in NonAdmins})
                      \cup With("auth_reject_", {Arg("ok", u, "none") : u \in NonAdmins}))

HandleFanout(t) ==
    \/ cmd_start(t) \/ callback_auth_approve(t) \/ callback_auth_reject(t)
    \/ cmd_notify(t) \/ cmd_wake(t)
    \/ Finish(t)

NextFanout ==
    \/ \E u \in FanoutUpdates :
         /\ nevents < MaxFanoutEvents
         /\ \A s \in Slots : tasks[s] = Idle
         /\ Receive(1, u.kind, u.sender, u.arg)
    \/ \E t \in Slots : HandleFanout(t)

SpecFanout == Init /\ [][NextFanout]_vars

\* The service specification: the methods of NotificationService,
\* WakeOnLanService and the repository called directly, and the two toggle
\* handlers, on the stores and the admin lists a deployment can hold.  One
\* call or update runs at a time; a finished task stays in its slot until the
\* slot is taken again, so that what it did can still be read.
AdminIdsValues ==
    {[form |-> "list", items |-> <<>>], [form |-> "list", items |-> <<1, 2, 3>>],
     [form |-> "list", items |-> <<1, 1>>], [form |-> "int", items |-> <<2>>],
     [form |-> "str", items |-> <<1, 0, 2>>], [form |-> "none", items |-> <<>>]}

\* The number of ids of D up to u: the primary key of u when the users of D
\* registered in the order of their ids.
Rank(u, D) == Cardinality({v \in D : v <= u})

\* The users tables the handlers can have left: any users registered, each
\* approved or not, with notifications on or off.
SeededUsers ==
    UNION {{[u \in D |->
                [id |-> Rank(u, D), telegram_id |-> u, is_authorized |-> f[u][1],
                 is_admin |-> f[u][1] /\ u = 1, notifications_enabled |-> f[u][2]]] :
              f \in [D -> BOOLEAN \X BOOLEAN]} : D \in SUBSET UserIds}

SeededLogs ==
    {[k \in 1..m |-> NewLogEntry("user_created", 0, k)] : m \in 0..MaxLogs}

InitService ==
    /\ \/ /\ settings = [admin_ids |-> parse_admin_ids(ADMIN_IDS)]
          /\ users \in SeededUsers
          /\ log_entries = <<>>
       \/ /\ settings = [admin_ids |-> parse_admin_ids(ADMIN_IDS)]
          /\ users = <<>>
          /\ log_entries \in SeededLogs
       \/ /\ settings \in {[admin_ids |-> parse_admin_ids(v)] : v \in AdminIdsValues}
          /\ users = <<>>
          /\ log_entries = <<>>
    /\ auth_requests = <<>>
    /\ pc_status = <<>>
    /\ tasks = [t \in Slots |-> Idle]
    /\ nevents = 0

\* No task is running: every slot is idle or holds a finished task.
Quiet == \A s \in Slots : tasks[s].pc \in {"idle", "done", "raised"}

HandleService(t) ==
    \/ notify_user(t) \/ call_notify_admins(t) \/ call_notify_all_users(t)
    \/ call_wake(t) \/ call_get_log_entries(t)
    \/ cmd_notify(t) \/ callback_toggle_notifications(t)
    \/ Finish(t)

NextService ==
    \/ \E t \in Slots :
         /\ nevents < MaxServiceEvents
         /\ Quiet
         /\ \/ \E a \in TargetIds : Call(t, "notify_user", a, "notify_user", 0)
            \/ Call(t, "notify_admins", 0, "notify_admins", 1)
            \/ Call(t, "notify_all_users", 0, "notify_all_users", 0)
            \/ \E retries \in 0..MaxRetries : Call(t, "wake", retries, "wake", 0)
            \/ \E limit \in 0..MaxLogs + 1 :
                  Call(t, "get_log_entries", limit, "get_log_entries", 0)
            \/ \E sender \in UserIds, kind \in {"/notify", "toggle_notifications"} :
                  Receive(t, kind, sender, NoArg)
    \/ \E t \in Slots : HandleService(t)

SpecService == InitService /\ [][NextService]_vars

\* The restart specification: the database file outlives the process and the
\* admin list is read from the environment when the process starts, so the
\* bot can be stopped and started again with another ADMIN_IDS on the same
\* store.  One update at a time: users register, whoever is in the admin list
\* decides, and everybody tries the admin-only operations.
RestartValues == {ADMIN_IDS, [form |-> "str", items |-> <<1, 0, 2>>]}

InitRestart ==
    /\ settings \in {[admin_ids |-> parse_admin_ids(v)] : v \in RestartValues}
    /\ users = <<>>
    /\ auth_requests = <<>>
    /\ log_entries = <<>>
    /\ pc_status = <<>>
    /\ tasks = [t \in Slots |-> Idle]
    /\ nevents = 0

\* get_settings() of a new process: Settings() is built from the environment
\* once and cached; the tables are as the last process left them.
Restart ==
    /\ \A s \in Slots : tasks[s] = Idle
    /\ \E v \in RestartValues :
         /\ settings' = [admin_ids |-> parse_admin_ids(v)]
         /\ settings' # settings
    /\ UNCHANGED <<store, tasks, nevents>>

RestartUpdates ==
    From(UserIds,
         Plain({"/start", "/logs", "admin_auth", "admin_logs"})
         \cup With("/auth", {Arg("ok", u, a) : u \in UserIds, a \in {"approve", "reject"}})
         \cup With("auth_approve_", {Arg("ok", u, "none") : u \in UserIds})
         \cup With("auth_reject_", {Arg("ok", u, "none") : u \in UserIds}))

HandleRestart(t) ==
    \/ cmd_start(t) \/ cmd_auth(t) \/ callback_auth_approve(t)
    \/ callback_auth_reject(t) \/ callback_admin_auth(t) \/ cmd_logs(t)
    \/ callback_admin_logs(t)
    \/ Finish(t)

NextRestart ==
    \/ \E u \in RestartUpdates :
         /\ nevents < MaxRestartEvents
         /\ \A s \in Slots : tasks[s] = Idle
         /\ Receive(1, u.kind, u.sender, u.arg)
    \/ \E t \in Slots : HandleRestart(t)
    \/ Restart

SpecRestart == InitRestart /\ [][NextRestart]_vars

\* The status specification: two users who are registered and approved (the
\* admin among them) send /status and /wake, and aiogram runs their handlers as
\* concurrent tasks, each with a DatabaseRepository and a session of its own.
\* update_pc_status and update_last_wake_attempt await the select and then the
\* commit, so the tasks interleave between the two.
StatusUsers == {1, 2}

InitStatus ==
    /\ settings = [admin_ids |-> parse_admin_ids(ADMIN_IDS)]
    /\ users = [u \in StatusUsers |->
                  [NewUser(u, u) EXCEPT !.is_authorized = TRUE,
                                        !.is_admin = InAdminIds(u)]]
    /\ auth_requests = <<>>
    /\ log_entries = <<>>
    /\ pc_status = <<>>
    /\ tasks = [t \in Slots |-> Idle]
    /\ nevents = 0

StatusUpdates == From(StatusUsers, Plain({"/status", "/wake"}))

HandleStatus(t) == cmd_status(t) \/ cmd_wake(t) \/ Finish(t)

NextStatus ==
    \/ \E u \in StatusUpdates, t \in Slots :
         /\ nevents < MaxStatusEvents
         /\ FreeSlot(t)
         /\ Receive(t, u.kind, u.sender, u.arg)
    \/ \E t \in Slots : HandleStatus(t)

SpecStatus == InitStatus /\ [][NextStatus]_vars

\* The wake specification: the two service loops that wait on the network,
\* verify_wake called directly with every timeout up to MaxTimeout and
\* _make_request with every max_retries up to MaxRetries, and /wake from the
\* users of the status specification, one update at a time.  The event loop resumes every task that can run (each
\* await of the handlers is a sleep or a call with a timeout of its own), hence
\* the weak fairness of the handlers' steps.
HandleWake(t) ==
    call_verify_wake(t) \/ make_request(t) \/ cmd_wake(t) \/ Finish(t)

NextWake ==
    \/ \E t \in Slots :
         /\ nevents < MaxWakeEvents
         /\ \A s \in Slots : tasks[s] = Idle
         /\ \/ \E timeout \in 0..MaxTimeout :
                  Call(t, "verify_wake", timeout, "verify_wake", 0)
            \/ \E steam_api_key \in BOOLEAN, max_retries \in 0..MaxRetries :
                  CallRequest(t, steam_api_key, max_retries)
            \/ \E sender \in StatusUsers : Receive(t, "/wake", sender, NoArg)
    \/ \E t \in Slots : HandleWake(t)

SpecWake ==
    InitStatus /\ [][NextWake]_vars /\ WF_vars(\E t \in Slots : HandleWake(t))

\* The race specification: on the store of the status specification the admin
\* decides on the other user, approving and rejecting with the command and
\* with the buttons, that user toggles the notifications, and
\* notify_all_users is called; up to MaxInFlight of them run at once and
\* interleave at their awaits.
RaceUpdates ==
    From(StatusUsers \ Admins, Plain({"/notify"}))
    \cup From(Admins,
              UNION {With("auth_approve_", {Arg("ok", u, "none")})
                     \cup With("auth_reject_", {Arg("ok", u, "none")})
                     \cup With("/auth", {Arg("ok", u, "approve"), Arg("ok", u, "reject")}) :
                        u \in StatusUsers \ Admins})

HandleRace(t) ==
    \/ cmd_auth(t) \/ callback_auth_approve(t) \/ callback_auth_reject(t)
    \/ cmd_notify(t) \/ call_notify_all_users(t)
    \/ Finish(t)

NextRace ==
    \/ \E t \in Slots :
         /\ nevents < MaxRaceEvents
         /\ FreeSlot(t)
         /\ \/ \E u \in RaceUpdates : Receive(t, u.kind, u.sender, u.arg)
            \/ Call(t, "notify_all_users", 0, "notify_all_users", 0)
    \/ \E t \in Slots : HandleRace(t)

SpecRace == InitStatus /\ [][NextRace]_vars

\* The operations open to authorized users, and those open to admins.
AuthorizedOps ==
    {"/wake", "/status", "/screenshot", "/reboot", "/shutdown", "/cancel", "/cmd",
     "/processes", "/dota", "/dotahistory", "/dotalive", "/dotabuffs", "/notify",
     "pc_wake", "pc_status", "pc_commands", "pc_screenshot", "pc_reboot",
     "pc_shutdown", "pc_cancel", "pc_processes", "confirm_", "dota_status",
     "dota_live", "dota_history", "toggle_notifications", "voice"}

AdminOps == {"/auth", "auth_approve_", "auth_reject_", "/logs", "admin_auth", "admin_logs"}

\* The revocation specification: the users of the status specification are
\* registered and approved; the one who is no admin sends every update of the
\* Authorized level, and an admin rejects that user, with the button or with
\* /auth, and approves again.  One update at a time; the finished task of a
\* /reboot, /shutdown, "pc_reboot" or "pc_shutdown" may stay in its slot: its
\* confirmation prompt, with the confirm button, stays in the user's chat while
\* the later updates are handled.
Prompted(task) ==
    /\ task.pc = "done"
    /\ \E i \in DOMAIN task.trace :
          task.trace[i] \in {Answer("confirm reboot"), Answer("confirm shutdown")}

RevokeUpdates ==
    From(StatusUsers \ Admins, {u \in Updates : u.kind \in AuthorizedOps})
    \cup From(Admins,
              UNION {With("auth_reject_", {Arg("ok", u, "none")})
                     \cup With("auth_approve_", {Arg("ok", u, "none")})
                     \cup With("/auth", {Arg("ok", u, "reject")}) :
                        u \in StatusUsers \ Admins})

HandleRevoke(t) ==
    \/ cmd_auth(t) \/ callback_auth_approve(t) \/ callback_auth_reject(t)
    \/ cmd_wake(t) \/ callback_pc_wake(t) \/ cmd_status(t) \/ callback_pc_status(t)
    \/ cmd_screenshot(t) \/ cmd_reboot(t) \/ cmd_shutdown(t) \/ cmd_cancel(t)
    \/ cmd_command(t) \/ cmd_processes(t) \/ callback_pc_commands(t)
    \/ callback_pc_screenshot(t) \/ callback_pc_reboot(t) \/ callback_pc_shutdown(t)
    \/ callback_pc_cancel(t) \/ callback_pc_processes(t) \/ callback_confirm(t)
    \/ cmd_dota(t) \/ cmd_dota_history(t) \/ cmd_dota_live(t) \/ cmd_dota_buffs(t)
    \/ callback_dota_status(t) \/ callback_dota_live(t) \/ callback_dota_history(t)
    \/ cmd_notify(t) \/ callback_toggle_notifications(t)
    \/ handle_voice_message(t)
    \/ Finish(t)

NextRevoke ==
    \/ \E u \in RevokeUpdates, t \in Slots :
         /\ nevents < MaxRevokeEvents
         /\ \A s \in Slots : tasks[s] = Idle \/ Prompted(tasks[s])
         /\ Receive(t, u.kind, u.sender, u.arg)
    \/ \E t \in Slots : HandleRevoke(t)

SpecRevoke == InitStatus /\ [][NextRevoke]_vars

\* ---------------------------------------------------------------- properties
\* Membership in the static admin list, read off the configuration.
StaticAdmin(uid) == uid \in {admin_ids[i] : i \in DOMAIN admin_ids}

\* The task runs an operation its sender has no right to.
Denied(task) ==
    \/ task.kind \in AuthorizedOps /\ ~IsAuthorized(task.sender)
    \/ task.kind \in AdminOps /\ ~StaticAdmin(task.sender)

\* C1.  Gating has no side effect: every step of a task that runs an
\* Authorized-level operation for a sender with no record or with
\* is_authorized false, or an Admin-level operation for a sender outside the
\* admin list, leaves the four tables as they are, and the task has called no
\* adapter and written nothing: all it has done is answer its sender.
C1_GatingHasNoSideEffect ==
    [][\A t \in Slots :
         (Denied(tasks[t]) /\ tasks'[t] # tasks[t])
            => /\ store' = store
               /\ tasks'[t] = Idle \/ SideEffects(tasks'[t]) = {}]_vars

\* A user with a record and no authorization has sent "/cmd rm" and the
\* handler has returned after the denial.
C1_Witness ==
    \E t \in Slots :
        /\ tasks[t].kind = "/cmd" /\ tasks[t].arg.action = "rm"
        /\ tasks[t].pc = "done"
        /\ tasks[t].sender \in DOMAIN users
        /\ ~users[tasks[t].sender].is_authorized
        /\ tasks[t].trace = <<Answer("denied")>>

\* The step of task t commits the update_user of a decision on user u.
DecisionCommit(t, u) ==
    /\ tasks[t].kind \in {"/auth", "auth_approve_", "auth_reject_"}
    /\ tasks[t].arg.id = u
    /\ tasks[t].pc = "update_user"
    /\ tasks'[t].pc = "log"

TrustFlags(row) == <<row.is_authorized, row.is_admin>>

\* C2.  Trust flags change only by an admin decision: a record is created
\* with is_authorized and is_admin false, no record is deleted, and a step
\* that changes either flag of a user is the update_user commit of a /auth,
\* auth_approve_ or auth_reject_ task for that user whose sender is in the
\* admin list.  So whatever updates the other senders send, interleaved in
\* any way, no flag becomes true by them.
C2_TrustFlagsChangeOnlyByAdminDecision ==
    [][\A u \in UserIds :
         /\ (u \in DOMAIN users' /\ u \notin DOMAIN users)
               => TrustFlags(users'[u]) = <<FALSE, FALSE>>
         /\ u \in DOMAIN users => u \in DOMAIN users'
         /\ (u \in DOMAIN users /\ TrustFlags(users'[u]) # TrustFlags(users[u]))
               => \E t \in Slots :
                     DecisionCommit(t, u) /\ StaticAdmin(tasks[t].sender)]_vars

\* An admin's approval of a user has been committed while the approve button
\* that user tapped with its own id has been answered with the denial.
C2_Witness ==
    \E a, b \in Slots :
        /\ tasks[a].kind = "auth_approve_" /\ StaticAdmin(tasks[a].sender)
        /\ Did(tasks[a], "update_user")
        /\ users[tasks[a].arg.id].is_authorized
        /\ tasks[b].kind = "auth_approve_" /\ ~StaticAdmin(tasks[b].sender)
        /\ tasks[b].arg.id = tasks[a].arg.id
        /\ tasks[b].pc = "done" /\ tasks[b].trace = <<Answer("denied")>>

ApproveTask(task) ==
    \/ task.kind = "auth_approve_"
    \/ task.kind = "/auth" /\ task.arg.action = "approve"

RejectTask(task) ==
    \/ task.kind = "auth_reject_"
    \/ task.kind = "/auth" /\ task.arg.action = "reject"

\* C3.  Approval effect: once an admin's approval of an existing user U, by
\* "/auth U approve" or by the auth_approve_U button, has written the store,
\* the stored U has is_authorized true and has is_admin true exactly when U's
\* telegram id is in the static admin list.
C3_ApprovalEffect ==
    \A t \in Slots :
        (ApproveTask(tasks[t]) /\ Did(tasks[t], "update_user"))
           => LET U == users[tasks[t].arg.id] IN
              /\ U.is_authorized
              /\ U.is_admin <=> StaticAdmin(tasks[t].arg.id)

\* "/auth 1 approve" has returned: user 1, who is in the admin list, is stored
\* authorized and admin.
C3_Witness ==
    \E t \in Slots :
        /\ tasks[t].kind = "/auth" /\ tasks[t].arg.action = "approve"
        /\ tasks[t].pc = "done" /\ Did(tasks[t], "update_user")
        /\ StaticAdmin(tasks[t].arg.id)
        /\ users[tasks[t].arg.id].is_authorized
        /\ users[tasks[t].arg.id].is_admin

\* C4.  Rejection never authorizes: no step of the handling of a reject
\* decision ("/auth U reject" or the auth_reject_U button) makes any user's
\* is_authorized true, and when the handler has written the store and
\* returned, U's is_authorized is false.
C4_RejectionNeverAuthorizes ==
    [][\A t \in Slots :
         (RejectTask(tasks[t]) /\ tasks'[t] # tasks[t])
            => /\ \A u \in DOMAIN users' :
                     users'[u].is_authorized
                        => u \in DOMAIN users /\ users[u].is_authorized
               /\ (tasks'[t].pc = "done" /\ Did(tasks'[t], "update_user"))
                     => ~users'[tasks[t].arg.id].is_authorized]_vars

\* The auth_reject_ button has been handled for a user whom an earlier
\* decision had approved: the user is stored unauthorized.
C4_Witness ==
    \E t \in Slots :
        /\ tasks[t].kind = "auth_reject_"
        /\ tasks[t].pc = "done" /\ Did(tasks[t], "update_user")
        /\ \E i \in DOMAIN log_entries : log_entries[i].action = "auth_approved"
        /\ ~users[tasks[t].arg.id].is_authorized

\* C5.  Approval is stable under concurrency: when the approval of U commits
\* and nothing has written U's row since the approval read it (the updates in
\* flight beside it are other users'), U is stored authorized; and from then
\* on a step that takes U's is_authorized from true to false is the
\* update_user commit of an admin's reject decision on U, never a step of
\* another user's /start, access request, toggle or query.
C5_ApprovalStableUnderConcurrency ==
    [][\A u \in UserIds :
         /\ \A t \in Slots :
               (ApproveTask(tasks[t]) /\ DecisionCommit(t, u)
                    /\ StaticAdmin(tasks[t].sender) /\ tasks[t].user = users[u])
                  => users'[u].is_authorized
         /\ (u \in DOMAIN users /\ users[u].is_authorized
                /\ ~(u \in DOMAIN users' /\ users'[u].is_authorized))
               => \E t \in Slots :
                     /\ RejectTask(tasks[t]) /\ DecisionCommit(t, u)
                     /\ StaticAdmin(tasks[t].sender)]_vars

\* The approval of U and the /notify of another user are in flight together,
\* both have committed their update_user, and U is stored authorized.
C5_Witness ==
    \E a, b \in Slots :
        /\ tasks[a].kind = "auth_approve_" /\ StaticAdmin(tasks[a].sender)
        /\ Did(tasks[a], "update_user")
        /\ tasks[b].kind = "/notify" /\ tasks[b].sender # tasks[a].arg.id
        /\ Did(tasks[b], "update_user")
        /\ users[tasks[a].arg.id].is_authorized

\* C6.  An admin decision processes the outstanding requests: when an admin's
\* approve or reject of U has written the store and returned, every
\* AuthRequest of U has status approved or rejected, a processed-at timestamp
\* and a processor.
C6_DecisionProcessesRequests ==
    \A t \in Slots :
        ((ApproveTask(tasks[t]) \/ RejectTask(tasks[t]))
            /\ StaticAdmin(tasks[t].sender)
            /\ tasks[t].pc = "done" /\ Did(tasks[t], "update_user"))
           => \A i \in DOMAIN auth_requests :
                 auth_requests[i].user_id = users[tasks[t].arg.id].id
                    => /\ auth_requests[i].status \in {"approved", "rejected"}
                       /\ auth_requests[i].processed_at
                       /\ auth_requests[i].processed_by_id # 0

\* The task has called PCManager.reboot or PCManager.shutdown.
Destructive(task) == Did(task, "PCManager.reboot") \/ Did(task, "PCManager.shutdown")

\* C7.  Destructive actions need the two-step confirmation: a task that has
\* called PCManager.reboot or PCManager.shutdown is handling a confirm_reboot
\* or confirm_shutdown button.
C7_DestructiveOnlyAfterConfirmation ==
    \A t \in Slots :
        Destructive(tasks[t])
           => /\ tasks[t].kind = "confirm_"
              /\ tasks[t].arg.action \in {"reboot", "shutdown"}

\* The updates that open the two-step flow, and the one that cancels it.
PromptOps == {"/reboot", "/shutdown", "pc_reboot", "pc_shutdown", "cancel_action"}

\* C8.  Only Confirmed has effects in the two-step flow: every step of the
\* handling of /reboot, /shutdown, pc_reboot, pc_shutdown or cancel_action
\* leaves the four tables as they are, and the task has called no PCManager
\* operation, written no audit entry and sent nothing but the reply to its
\* sender.
C8_PromptAndCancelOnlyReply ==
    [][\A t \in Slots :
         (tasks[t].kind \in PromptOps /\ tasks'[t] # tasks[t])
            => /\ UNCHANGED <<users, auth_requests, log_entries, pc_status>>
               /\ tasks'[t] # Idle
                     => \A i \in DOMAIN tasks'[t].trace :
                           tasks'[t].trace[i].op = "answer"]_vars

\* An authorized user has sent /reboot and got the confirmation prompt.
C8_Witness ==
    \E t \in Slots :
        /\ tasks[t].kind = "/reboot" /\ tasks[t].pc = "done"
        /\ IsAuthorized(tasks[t].sender)
        /\ tasks[t].trace = <<Answer("confirm reboot")>>

\* C9.  Confirmed triggers the action: when the handling of confirm_reboot
\* (confirm_shutdown) sent by an authorized user has ended, PCManager.reboot
\* (PCManager.shutdown) has been called with a delay of one minute.
C9_ConfirmedTriggersAction ==
    \A t \in Slots :
        (tasks[t].kind = "confirm_"
            /\ tasks[t].arg.action \in {"reboot", "shutdown"}
            /\ IsAuthorized(tasks[t].sender)
            /\ tasks[t].pc \in {"done", "raised"})
           => \E i \in DOMAIN tasks[t].trace :
                 tasks[t].trace[i] = Effect("PCManager." \o tasks[t].arg.action, 1)

\* The users one notify_all_users call tried to reach.
Recipients(task) ==
    {task.trace[i].a :
        i \in {j \in DOMAIN task.trace : task.trace[j].op = "send_message"}}

\* The users stored with is_authorized and notifications_enabled.
Subscribed ==
    {u \in DOMAIN users : users[u].is_authorized /\ users[u].notifications_enabled}

\* The /wake task found the PC online and its notify_all_users has returned.
FannedOut(task) ==
    /\ task.kind = "/wake" /\ task.pc = "done"
    /\ task.is_online /\ Did(task, "update_pc_status")

\* C10.  Fan-out audience: when the notify_all_users call of a /wake has
\* returned, the users it tried to deliver to are exactly those stored with
\* is_authorized true and notifications_enabled true.
C10_FanoutAudience ==
    \A t \in Slots : FannedOut(tasks[t]) => Recipients(tasks[t]) = Subscribed

\* A fan-out has reached somebody and has left out an authorized user who had
\* opted out.
C10_Witness ==
    \E t \in Slots :
        /\ FannedOut(tasks[t])
        /\ Recipients(tasks[t]) # {}
        /\ \E u \in DOMAIN users :
              /\ users[u].is_authorized /\ ~users[u].notifications_enabled
              /\ u \notin Recipients(tasks[t])

\* The attempts of one kind a task has made, in order, and their arguments.
Attempts(task, op) == SelectSeq(task.trace, LAMBDA e : e.op = op)

Targets(attempts) == [k \in DOMAIN attempts |-> attempts[k].a]

Succeeded(attempts) == Len(SelectSeq(attempts, LAMBDA e : e.text = "ok"))

\* The users of the list notify_all_users read that it does not skip.
Enabled(list) == SelectSeq(list, LAMBDA r : r.notifications_enabled)

\* C11.  Per-recipient failure isolation: a call of notify_admins or of
\* notify_all_users never ends by an exception, and when it has returned it
\* has made one attempt for every recipient, in the order of the list,
\* whichever of them failed, and its count is the number of attempts that
\* succeeded.
C11_FailureIsolation ==
    \A t \in Slots :
        LET sends == Attempts(tasks[t], "send_message") IN
        /\ tasks[t].kind \in {"notify_admins", "notify_all_users"}
              => tasks[t].pc # "raised"
        /\ (tasks[t].kind = "notify_admins" /\ tasks[t].pc = "done")
              => /\ Targets(sends) = admin_ids
                 /\ tasks[t].sent_count = Succeeded(sends)
        /\ (tasks[t].kind = "notify_all_users" /\ tasks[t].pc = "done")
              => /\ Targets(sends) =
                       [k \in DOMAIN Enabled(tasks[t].list) |->
                           Enabled(tasks[t].list)[k].telegram_id]
                 /\ tasks[t].sent_count = Succeeded(sends)

\* notify_all_users has returned 2 after three attempts of which the second
\* failed.
C11_Witness ==
    \E t \in Slots :
        LET sends == Attempts(tasks[t], "send_message") IN
        /\ tasks[t].kind = "notify_all_users" /\ tasks[t].pc = "done"
        /\ Len(sends) = 3
        /\ sends[1].text = "ok" /\ sends[2].text = "failed" /\ sends[3].text = "ok"
        /\ tasks[t].sent_count = 2

\* C12.  At-most-once delivery, no retry: a call of notify_user, notify_admins
\* or notify_all_users that has returned has made at most one attempt per
\* recipient, whatever admin list is configured and whatever the store holds,
\* and notify_user has made exactly one attempt and returned whether it
\* succeeded.
C12_AtMostOncePerRecipient ==
    \A t \in Slots :
        LET sends == Attempts(tasks[t], "send_message") IN
        (tasks[t].kind \in {"notify_user", "notify_admins", "notify_all_users"}
            /\ tasks[t].pc = "done")
           => /\ \A j, k \in DOMAIN sends : sends[j].a = sends[k].a => j = k
              /\ tasks[t].kind = "notify_user"
                    => /\ Len(sends) = 1
                       /\ tasks[t].ret <=> sends[1].text = "ok"

\* C13.  Wake retry loop: when wake(retries = n) has returned it has called
\* send_magic_packet at most n times, only its last call can have succeeded,
\* it returns true exactly when one did, and when none did it has made all n
\* calls.
C13_WakeRetryLoop ==
    \A t \in Slots :
        LET packets == Attempts(tasks[t], "send_magic_packet")
            n == tasks[t].arg.id
        IN  (tasks[t].kind = "wake" /\ tasks[t].pc = "done")
               => /\ Len(packets) <= n
                  /\ \A k \in DOMAIN packets :
                        packets[k].text = "ok" => k = Len(packets)
                  /\ tasks[t].ret <=> \E k \in DOMAIN packets : packets[k].text = "ok"
                  /\ ~tasks[t].ret => Len(packets) = n

\* wake(retries = 3) has returned true after a failed, a failed and a
\* successful send_magic_packet.
C13_Witness ==
    \E t \in Slots :
        LET packets == Attempts(tasks[t], "send_magic_packet") IN
        /\ tasks[t].kind = "wake" /\ tasks[t].arg.id = 3 /\ tasks[t].pc = "done"
        /\ tasks[t].ret
        /\ Len(packets) = 3
        /\ packets[1].text = "failed" /\ packets[2].text = "failed"
        /\ packets[3].text = "ok"

\* The task handles /cmd for a sender who is authorized and not an admin,
\* with a command whose first word is in neither allowlist, and
\* execute_command has returned.
RefusedCmd(task) ==
    /\ task.kind = "/cmd"
    /\ task.pc \in {"log", "done"}
    /\ task.user # NoUser /\ task.user.is_authorized /\ ~task.user.is_admin
    /\ task.arg.action \notin SAFE_CMDS \cup SAFE_COMMANDS

\* C14.  A refused /cmd is not executed: when execute_command has returned
\* for a non-admin's command whose program is not allowed, no shell
\* subprocess has been spawned and the user has been told that the command
\* is not in the allowed list.
C14_RefusedCmdNotExecuted ==
    \A t \in Slots :
        RefusedCmd(tasks[t])
           => /\ ~Did(tasks[t], "create_subprocess_shell")
              /\ \E i \in DOMAIN tasks[t].trace :
                    tasks[t].trace[i] = Answer("not in the allowed list")

\* An approved user who is not an admin has sent "/cmd rm" and the handler
\* has returned.
C14_Witness ==
    \E t \in Slots :
        /\ RefusedCmd(tasks[t])
        /\ tasks[t].arg.action = "rm" /\ tasks[t].pc = "done"
        /\ ~InAdminIds(tasks[t].sender)

\* C15.  A refused /cmd leaves no audit entry: the handling of a non-admin's
\* /cmd that execute_command refused writes nothing, in the audit log or
\* elsewhere.
C15_RefusedCmdLeavesNoAudit ==
    \A t \in Slots :
        RefusedCmd(tasks[t]) => SideEffects(tasks[t]) = {}

\* C16.  Audit query: get_log_entries(limit = n) on a table of m entries
\* returns min(n, m) entries, the k-th of them being the k-th newest of the
\* table.
C16_AuditQuery ==
    [][\A t \in Slots :
         (tasks[t].kind = "get_log_entries" /\ tasks[t].pc = "get_log_entries"
             /\ tasks'[t].pc = "done")
            => LET n == tasks[t].arg.id
                   m == Len(log_entries)
                   logs == tasks'[t].list
               IN  /\ Len(logs) = IF n < m THEN n ELSE m
                   /\ \A k \in DOMAIN logs : logs[k] = log_entries[m - k + 1]]_vars

\* get_log_entries(limit = 2) has returned the third and the second of three
\* entries, in that order.
C16_Witness ==
    \E t \in Slots :
        /\ tasks[t].kind = "get_log_entries" /\ tasks[t].arg.id = 2
        /\ tasks[t].pc = "done"
        /\ Len(log_entries) = 3
        /\ tasks[t].list = <<log_entries[3], log_entries[2]>>

\* The two notification-toggle events.
ToggleKinds == {"/notify", "toggle_notifications"}

\* The step of task t commits the update_user of a toggle.
ToggleCommit(t) ==
    /\ tasks[t].kind \in ToggleKinds
    /\ tasks[t].pc = "update_user"
    /\ tasks'[t].pc # "update_user"

\* The task is a toggle of `sender` that has written and returned.
Toggle(task, sender) ==
    /\ task.kind \in ToggleKinds /\ task.sender = sender
    /\ task.pc = "done" /\ Did(task, "update_user")

\* C17.  Toggle is an involution when sequential: handled one at a time, the
\* commit of a toggle negates the sender's stored notifications_enabled, and
\* the commit of a second toggle of the same user, started after the first
\* has returned, stores the value the first one found (the negation of the
\* value the first one left and reported).
C17_ToggleInvolution ==
    [][\A b \in Slots :
         ToggleCommit(b)
            => LET sender == tasks[b].sender IN
               /\ users'[sender].notifications_enabled
                     = ~users[sender].notifications_enabled
               /\ \A a \in Slots \ {b} :
                     Toggle(tasks[a], sender)
                        => users'[sender].notifications_enabled
                              = ~tasks[a].user.notifications_enabled]_vars

\* /notify and then the toggle button of the same user have both returned:
\* the first left the notifications off, the second left them on, as stored.
C17_Witness ==
    \E a, b \in Slots, sender \in UserIds :
        /\ Toggle(tasks[a], sender) /\ tasks[a].kind = "/notify"
        /\ Toggle(tasks[b], sender) /\ tasks[b].kind = "toggle_notifications"
        /\ ~tasks[a].user.notifications_enabled
        /\ tasks[b].user.notifications_enabled
        /\ users[sender].notifications_enabled

\* C18.  Lost update on concurrent toggles: when a toggle of a user commits
\* holding the value that another toggle of the same user, already
\* committed, had read too (it read before the other wrote), it writes the
\* same negated value again: the stored preference stays what the first
\* write made it and differs from the value the toggles started from, which
\* is what two toggles handled one after the other leave.
C18_LostUpdate ==
    [][\A a, b \in Slots :
         (/\ a # b
          /\ tasks[a].kind \in ToggleKinds /\ Did(tasks[a], "update_user")
          /\ ToggleCommit(b) /\ tasks[b].sender = tasks[a].sender
          /\ tasks[b].user.notifications_enabled
                = ~tasks[a].user.notifications_enabled)
            => LET stored == users'[tasks[b].sender].notifications_enabled IN
               /\ stored = tasks[a].user.notifications_enabled
               /\ stored = ~tasks[b].user.notifications_enabled]_vars

\* Two /notify of one user have interleaved and returned: the user started
\* with notifications on, both toggles report them off, and off they are.
C18_Witness ==
    \E a, b \in Slots :
        /\ a # b
        /\ tasks[a].kind = "/notify" /\ tasks[b].kind = "/notify"
        /\ tasks[a].sender = tasks[b].sender
        /\ tasks[a].pc = "done" /\ tasks[b].pc = "done"
        /\ Did(tasks[a], "update_user") /\ Did(tasks[b], "update_user")
        /\ ~tasks[a].user.notifications_enabled
        /\ ~tasks[b].user.notifications_enabled
        /\ ~users[tasks[a].sender].notifications_enabled

\* C19.  User creation on first contact: once an update of a sender has been
\* handled, whatever its kind, the users table holds a record for that
\* sender.
C19_FirstContactCreatesUser ==
    \A t \in Slots :
        (tasks[t].kind # "idle" /\ tasks[t].pc \in {"done", "raised"})
           => tasks[t].sender \in DOMAIN users

\* The handler has refused the update: it has answered with the denial and
\* returned.
Refused(task) == task.pc = "done" /\ task.trace = <<Answer("denied")>>

\* C20.  Admin determination is the dual check: once the handler of an
\* admin-only update has decided, it has let the update through exactly when
\* the IsAdmin filter passes the sender, that is when the sender's id is in
\* the admin list or the sender's stored record has is_admin true.
C20_AdminIsDualCheck ==
    \A t \in Slots :
        (tasks[t].kind \in AdminOps /\ tasks[t].pc # "begin")
           => (~Refused(tasks[t]) <=> IsAdmin(tasks[t].sender))

\* C21.  Denial is visible: every update that gating rejects, a command or a
\* button, is answered with the denial before its handling ends; none is
\* dropped without a word to its sender.
C21_DenialIsVisible ==
    \A t \in Slots :
        (tasks[t].pc = "done" /\ Denied(tasks[t]))
            => \E i \in DOMAIN tasks[t].trace : tasks[t].trace[i] = Answer("denied")

\* An admin decision, typed or pressed by a sender of the admin list, whose
\* arguments are malformed or name an id with no stored User; or an authorized
\* sender's /cmd with nothing after it.
InvalidInput(task) ==
    \/ /\ task.kind \in {"/auth", "auth_approve_", "auth_reject_"}
       /\ InAdminIds(task.sender)
       /\ \/ task.arg.form \in {"short", "nonnumeric"}
          \/ task.kind = "/auth" /\ task.arg.action \notin {"approve", "reject"}
          \/ task.arg.id \notin DOMAIN users
    \/ /\ task.kind = "/cmd"
       /\ task.sender \in DOMAIN users /\ users[task.sender].is_authorized
       /\ task.arg.action = ""

Notices == {Answer("usage"), Answer("invalid"), Answer("not found")}

C23_NoEventUnanswered ==
    \A t \in Slots :
        tasks[t].pc \in {"done", "raised"} => Did(tasks[t], "answer")

\* The handler has carried out a state-changing action: a committed User write
\* (approve, reject, toggle), a scheduled reboot or shutdown, a spawned
\* command, a wake packet that was sent, or a cancelled shutdown.
StateChanging(task) ==
    \/ Did(task, "update_user")
    \/ Did(task, "PCManager.reboot") \/ Did(task, "PCManager.shutdown")
    \/ Did(task, "create_subprocess_shell")
    \/ Did(task, "WakeOnLanService.wake")
    \/ Succeeded(Attempts(task, "send_magic_packet")) > 0
    \/ /\ Did(task, "PCManager.cancel_shutdown")
       /\ \E i \in DOMAIN task.trace : task.trace[i] = Answer("cancelled")

\* C24.  State-changing actions are audited: a handler that has returned after
\* a state-changing action has appended at least one audit entry.
C24_StateChangesAudited ==
    \A t \in Slots :
        (tasks[t].pc = "done" /\ StateChanging(tasks[t]))
            => Did(tasks[t], "add_log_entry")

\* C25.  The PC status is a singleton: the store never holds more than one
\* pc_status row, whichever way the /status and /wake handlers of different
\* users interleave.
C25_PCStatusSingleton == Len(pc_status) <= 1

\* C26.  is_admin => is_authorized is not maintained: the commit of the reject
\* button clears is_authorized in the row of the user it names and leaves the
\* row's is_admin as it is stored, so that a row with is_admin true keeps it
\* while it loses is_authorized.
C26_RejectKeepsAdminFlag ==
    [][\A t \in Slots :
         (/\ tasks[t].kind = "auth_reject_"
          /\ tasks[t].pc = "update_user"
          /\ tasks'[t].pc = "log")
            => LET u == tasks[t].arg.id IN
               /\ ~users'[u].is_authorized
               /\ users'[u].is_admin = users[u].is_admin]_vars

\* An admin decision sequence has run on a user of the static admin list (the
\* user was approved, then rejected with the button) and the stored record has
\* is_admin true with is_authorized false.
C26_Witness ==
    \E t \in Slots, u \in DOMAIN users :
        /\ StaticAdmin(u)
        /\ users[u].is_admin /\ ~users[u].is_authorized
        /\ tasks[t].kind = "auth_reject_" /\ tasks[t].arg.id = u
        /\ tasks[t].pc = "done"
        /\ Did(tasks[t], "update_user")

\* What C27 says of a task in any state: a verify_wake call has made at most
\* ceil(timeout / 2) checks, every check before the last one failed, and once
\* it has returned it returned True exactly when its last check succeeded and
\* False only after all ceil(timeout / 2) checks failed; a /wake that has
\* returned answered 'failed to send' exactly when no packet was sent and
\* 'not responding' exactly when a packet was sent and verify_wake returned
\* False.
VerifyWakeBounded ==
    \A t \in Slots :
        LET task == tasks[t]
            checks == Attempts(task, "check_port_open")
            most == (task.arg.id + 1) \div 2
            sent == Succeeded(Attempts(task, "send_magic_packet")) > 0
            said(text) == \E i \in DOMAIN task.trace : task.trace[i] = Answer(text)
        IN  /\ task.kind = "verify_wake" =>
                /\ Len(checks) <= most
                /\ \A k \in 1..(Len(checks) - 1) : checks[k].text = "failed"
                /\ task.pc = "done" =>
                     /\ task.is_online <=>
                           (Len(checks) > 0 /\ checks[Len(checks)].text = "ok")
                     /\ ~task.is_online => Len(checks) = most
            /\ (task.kind = "/wake" /\ task.pc = "done") =>
                /\ said("failed to send") <=> ~sent
                /\ said("not responding") <=>
                      (sent /\ Did(task, "WakeOnLanService.verify_wake")
                            /\ ~task.is_online)
                /\ ~(said("failed to send") /\ said("not responding"))

\* C27.  verify_wake(timeout = T) always terminates, after at most ceil(T / 2)
\* port checks, with True at the first check that succeeds and False when none
\* does; /wake answers 'packet sent but PC not responding' for the timed-out
\* verification and 'failed to send' for the packet that could not be sent.
C27_VerifyWakeTerminates ==
    /\ []VerifyWakeBounded
    /\ \A t \in Slots : (tasks[t].pc = "verify_wake") ~> (tasks[t].pc = "done")

\* verify_wake(timeout = 5) has returned False after three failed checks, at
\* elapsed 0, 2 and 4.
C27_Witness ==
    \E t \in Slots :
        /\ tasks[t].kind = "verify_wake" /\ tasks[t].arg.id = 5
        /\ tasks[t].pc = "done" /\ ~tasks[t].is_online
        /\ Targets(Attempts(tasks[t], "check_port_open")) = <<0, 2, 4>>

\* C28.  Access requests: the handling of a request-access event of a sender
\* whose record has is_authorized false appends exactly one pending
\* AuthRequest for that user, whatever requests are stored already, then
\* writes its audit entry and notifies the admins; the handling of one whose
\* sender has no record or is authorized creates, logs and sends nothing; and
\* nothing else adds to the requests.
C28_AccessRequests ==
    [][
       /\ \A t \in Slots :
            (tasks[t].kind = "request_auth" /\ tasks'[t] # tasks[t])
               => LET user == get_user_by_telegram_id(tasks[t].sender) IN
                  IF user # NoUser /\ ~user.is_authorized
                  THEN /\ IF tasks[t].pc = "create_auth_request"
                          THEN auth_requests' =
                                  Append(auth_requests, NewAuthRequest(user.id))
                          ELSE auth_requests' = auth_requests
                       /\ tasks'[t] = Idle =>
                            /\ Len(Attempts(tasks[t], "create_auth_request")) = 1
                            /\ Len(Attempts(tasks[t], "add_log_entry")) = 1
                            /\ Targets(Attempts(tasks[t], "send_message")) = admin_ids
                  ELSE /\ store' = store
                       /\ tasks'[t] = Idle \/ SideEffects(tasks'[t]) = {}
       /\ auth_requests' # auth_requests
            => \E t \in Slots : /\ tasks[t].kind = "request_auth"
                                /\ tasks[t].pc = "create_auth_request"
      ]_vars

\* A user who is registered and not authorized has asked for access twice: two
\* pending requests of that user are stored and the second handler has
\* returned.
C28_Witness ==
    \E t \in Slots :
        /\ tasks[t].kind = "request_auth" /\ tasks[t].pc = "done"
        /\ tasks[t].user # NoUser /\ ~tasks[t].user.is_authorized
        /\ Len(auth_requests) = 2
        /\ \A k \in DOMAIN auth_requests :
              auth_requests[k] = NewAuthRequest(tasks[t].user.id)

\* C29.  No retry except the wake packet: a call of the game-stats request
\* makes at most one attempt, and when that attempt fails the failure is
\* raised to the caller.
C29_RequestAttemptedOnce ==
    \A t \in Slots :
        tasks[t].kind = "_make_request" =>
            LET attempts == Attempts(tasks[t], "session.get") IN
            /\ Len(attempts) <= 1
            /\ (Len(attempts) = 1 /\ attempts[1].text = "failed")
                  => tasks[t].pc = "raised"

\* C30.  Authorization is re-evaluated on every event: once an admin has
\* rejected a user who was authorized, every step of the handling of an
\* Authorized-level update of that user leaves the four tables as they are
\* and ends the handling at the gate, with nothing done but the denial; this
\* holds for the confirm button of a prompt the user was sent while
\* authorized as for every other update.
C30_AuthorizationReevaluated ==
    [][\A t \in Slots :
         (/\ tasks[t].kind \in AuthorizedOps
          /\ tasks[t].sender \in DOMAIN users
          /\ ~users[tasks[t].sender].is_authorized
          /\ tasks'[t] # tasks[t])
            => /\ store' = store
               /\ \/ tasks'[t] = Idle
                  \/ /\ tasks'[t].pc = "done"
                     /\ tasks'[t].trace \in {<<>>, <<Answer("denied")>>}]_vars

\* A user was sent the reboot prompt while authorized (the prompt is still in
\* the chat), an admin then rejected the user, and the user's press of the
\* confirm button has been handled: it stopped at the gate.
C30_Witness ==
    \E t \in Slots, p \in Slots :
        /\ tasks[p].kind = "/reboot" /\ Prompted(tasks[p])
        /\ tasks[t].kind = "confirm_" /\ tasks[t].arg.action = "reboot"
        /\ tasks[t].sender = tasks[p].sender
        /\ ~users[tasks[t].sender].is_authorized
        /\ \E k \in DOMAIN log_entries :
              log_entries[k].action \in {"auth_rejected", "auth_reject"}
        /\ tasks[t].pc = "done"
        /\ tasks[t].trace = <<>>

\* C31.  The stored admin flag is bounded by the static list: with the admin
\* list fixed, every stored User with is_admin true has its telegram id in the
\* static admin list.
C31_AdminFlagWithinStaticList ==
    \A u \in DOMAIN users : users[u].is_admin => StaticAdmin(u)

\* The approve button has written the record of a user of the static admin
\* list, who is now stored with is_admin true.
C31_Witness ==
    \E t \in Slots, u \in DOMAIN users :
        /\ tasks[t].kind = "auth_approve_" /\ tasks[t].arg.id = u
        /\ Did(tasks[t], "update_user")
        /\ StaticAdmin(u) /\ users[u].is_admin

\* C32.  The two rejection paths are equivalent: whatever the stored record of
\* user U, the commit of a rejection of U leaves the record that "/auth U
\* reject" makes of it and that the auth_reject_U button makes of it, the
\* two being the same.
C32_RejectionPathsEquivalent ==
    [][\A t \in Slots :
         (/\ RejectTask(tasks[t])
          /\ tasks[t].pc = "update_user"
          /\ tasks'[t].pc = "log")
            => LET u == tasks[t].arg.id IN
               /\ users'[u] = AuthDecided(users[u], "reject", u)
               /\ users'[u] = Rejected(users[u])]_vars

\* C33.  One record per external id under concurrency: a /start handler
\* commits its insert only when no record of the sender's telegram id is
\* stored at that moment, whatever its own earlier lookup returned; the insert
\* adds that one row and leaves every stored row as it is, and the primary
\* keys of the rows stay distinct.
C33_OneRecordPerExternalId ==
    [][\A t \in Slots :
         (/\ tasks[t].kind = "/start"
          /\ tasks[t].pc = "create_user"
          /\ tasks'[t].pc = "log")
            => /\ tasks[t].sender \notin DOMAIN users
               /\ DOMAIN users' = DOMAIN users \cup {tasks[t].sender}
               /\ \A u \in DOMAIN users : users'[u] = users[u]
               /\ Cardinality({users'[u].id : u \in DOMAIN users'})
                     = Cardinality(DOMAIN users')]_vars

\* Two /start updates of the same new user have interleaved between the
\* lookup and the insert: one handler has created the record, the insert of
\* the other has raised.
C33_Witness ==
    \E a \in Slots, b \in Slots :
        /\ a # b
        /\ tasks[a].kind = "/start" /\ tasks[b].kind = "/start"
        /\ tasks[a].sender = tasks[b].sender
        /\ Did(tasks[a], "create_user")
        /\ tasks[b].pc = "raised"
        /\ tasks[a].sender \in DOMAIN users

\* The operations an approval has performed, in the order it performed them.
Ops(task) == [k \in DOMAIN task.trace |-> task.trace[k].op]

ApprovalOrder == <<"update_user", "add_log_entry", "send_message", "answer">>

\* The step in which approval t sends the 'Authorization Approved'
\* notification and answers the admin.
ApprovalNotifies(t) ==
    /\ ApproveTask(tasks[t])
    /\ tasks[t].pc = "notify"
    /\ tasks'[t].pc = "done"

\* C34, as stated.  Order of an approval's effects: the store update commits
\* first, then the audit entry, then the notification, then the answer to the
\* admin, so whenever the user is notified the store shows is_authorized true.
C34_NotifiedImpliesAuthorized ==
    [][\A t \in Slots :
         ApprovalNotifies(t) =>
           /\ Ops(tasks'[t]) = ApprovalOrder
           /\ users[tasks[t].arg.id].is_authorized
      ]_vars

\* The step in which decision t commits its store update.
DecisionCommits(t) ==
    /\ tasks[t].pc = "update_user"
    /\ tasks'[t].pc = "log"

\* C34, amended.  The effects come in that order; the approval's commit leaves
\* is_authorized true in the store unless a rejection of the same user has
\* committed since the approval read the record, and after it only the commit
\* of a rejection of that user clears the flag.  So the notified user is
\* authorized in the store unless a rejection of that user committed after the
\* approval had read the record.
C34_ApprovalOrder ==
    [][\A t \in Slots :
         /\ ApprovalNotifies(t) => Ops(tasks'[t]) = ApprovalOrder
         /\ ApproveTask(tasks[t]) /\ DecisionCommits(t) =>
              \/ users'[tasks[t].arg.id].is_authorized
              \/ tasks[t].user.is_authorized /\ ~users[tasks[t].arg.id].is_authorized
         /\ \A u \in DOMAIN users :
              users[u].is_authorized /\ ~users'[u].is_authorized =>
                \E s \in Slots :
                  RejectTask(tasks[s]) /\ DecisionCommits(s) /\ tasks[s].arg.id = u
      ]_vars

\* An approval of a user who had been rejected has notified that user, and the
\* store shows the user authorized.
C34_Witness ==
    \E t \in Slots :
      /\ ApproveTask(tasks[t])
      /\ tasks[t].pc = "done"
      /\ Ops(tasks[t]) = ApprovalOrder
      /\ users[tasks[t].arg.id].is_authorized
      /\ \E k \in DOMAIN log_entries :
           log_entries[k].action \in {"auth_reject", "auth_rejected"}

\* The telegram ids of a list of users, in order.
TelegramIds(list) == [k \in DOMAIN list |-> list[k].telegram_id]

FanOut(task) == task.kind = "notify_all_users"

\* C35.  Fan-out works on a snapshot: the recipients of one notify_all_users
\* call are fixed by the single get_all_authorized_users read at its start.
\* The list the call holds is the store's answer at that read and no step of
\* any handler changes it afterwards; when the call returns it has tried, in
\* order, exactly the users of that list with notifications enabled in it, and
\* its count is the number of those sends that succeeded, whatever toggle,
\* approval or rejection committed while the loop ran.
C35_FanOutSnapshot ==
    [][\A t \in Slots :
         /\ FanOut(tasks[t]) /\ tasks[t].pc = "notify_all_users" /\ tasks'[t].pc = "send" =>
              tasks'[t].list = get_all_authorized_users
         /\ FanOut(tasks[t]) /\ tasks[t].pc = "send" /\ FanOut(tasks'[t]) =>
              tasks'[t].list = tasks[t].list
         /\ FanOut(tasks[t]) /\ tasks[t].pc = "send" /\ tasks'[t].pc = "done" =>
              /\ Targets(Attempts(tasks'[t], "send_message")) =
                   TelegramIds(Enabled(tasks[t].list))
              /\ tasks'[t].sent_count = Succeeded(Attempts(tasks'[t], "send_message"))
      ]_vars

\* A notify_all_users call has sent to its first recipient, and a user it has
\* yet to send to is no longer a recipient according to the store.
C35_Witness ==
    \E t \in Slots :
      /\ FanOut(tasks[t])
      /\ tasks[t].pc = "send"
      /\ Did(tasks[t], "send_message")
      /\ \E k \in DOMAIN tasks[t].list :
           /\ k >= tasks[t].i
           /\ tasks[t].list[k].notifications_enabled
           /\ LET stored == users[tasks[t].list[k].telegram_id] IN
                ~stored.is_authorized \/ ~stored.notifications_enabled

\* The step of handler t adds an audit entry.
WritesEntry(t) ==
    /\ tasks'[t] # tasks[t]
    /\ Len(log_entries') = Len(log_entries) + 1

\* C36.  Audit actor references are consistent: each audit entry's actor
\* reference is either empty or the store-internal id of the User record of
\* the user who performed the audited action, for every handler that writes
\* an entry.
C36_AuditActorIsStoreId ==
    [][\A t \in Slots :
         WritesEntry(t) =>
           LET entry == log_entries'[Len(log_entries')]
               actor == get_user_by_telegram_id(tasks[t].sender) IN
           \/ entry.user_id = 0
           \/ actor # NoUser /\ entry.user_id = actor.id
      ]_vars

\* Handler t of /cmd has passed the authorization check with a non-empty
\* command and execute_command has returned.
CmdReturned(task) ==
    /\ task.kind = "/cmd"
    /\ task.pc \in {"log", "done"}
    /\ task.user # NoUser

\* C37.  Non-admin command allowlist: for a sender whose stored is_admin is
\* false, /cmd spawns a shell subprocess only if the first word of the command
\* is in the handler's SAFE_CMDS list; for an authorized sender whose stored
\* is_admin is true every non-empty command is executed.
C37_NonAdminAllowlist ==
    \A t \in Slots :
        CmdReturned(tasks[t]) =>
           IF tasks[t].user.is_admin
           THEN Did(tasks[t], "create_subprocess_shell")
           ELSE Did(tasks[t], "create_subprocess_shell")
                   => tasks[t].arg.action \in SAFE_CMDS

RequestTask(task) == task.kind = "_make_request"

\* The classes of the exceptions a request has raised to its caller.
Raises(task) ==
    [k \in DOMAIN Attempts(task, "raise") |-> Attempts(task, "raise")[k].text]

\* C38.  Steam request retry loop: _make_request makes at most max_retries
\* HTTP attempts, returns the JSON of the first 200 response without any
\* further attempt, raises a SteamAPIError (SteamAPIAuthError for 403,
\* SteamAPIRateLimitError for 429) when the last attempt fails, and returns
\* None without any attempt when no API key is configured.
C38_RequestRetryLoop ==
    \A t \in Slots :
        RequestTask(tasks[t]) =>
            LET self == tasks[t]
                attempts == Attempts(self, "session.get")
                statuses == Targets(Attempts(self, "response.status"))
                n == Len(attempts)
                max_retries == self.arg.id IN
            /\ n <= max_retries
            /\ \A k \in 1..n : attempts[k].text = "ok" <=> statuses[k] = 200
            /\ \A k \in 1..n : statuses[k] = 200 =>
                  k = n /\ self.pc = "done" /\ self.ret /\ Raises(self) = <<>>
            /\ (self.arg.form = "key" /\ n = max_retries /\ n > 0 /\ statuses[n] # 200)
                  => /\ self.pc = "raised"
                     /\ Raises(self) =
                          <<IF statuses[n] = 403 THEN "SteamAPIAuthError"
                            ELSE IF statuses[n] = 429 THEN "SteamAPIRateLimitError"
                            ELSE "SteamAPIError">>
            /\ self.pc = "raised" => n = max_retries /\ statuses[n] # 200
            /\ self.arg.form = "no key" =>
                  n = 0 /\ (self.pc = "done" => ~self.ret) /\ self.pc # "raised"

\* A request with a key has been retried after a failure and has raised the
\* exception of the 403 its last attempt was answered with.
C38_Witness ==
    \E t \in Slots :
        /\ RequestTask(tasks[t])
        /\ tasks[t].pc = "raised"
        /\ Len(Attempts(tasks[t], "session.get")) = tasks[t].arg.id
        /\ tasks[t].arg.id > 1
        /\ Raises(tasks[t]) = <<"SteamAPIAuthError">>

====
